---- MODULE Spec2Model ----
(***************************************************************************)
(* Model of the audit assistant (ISO 27001 / ANSSI): the status text       *)
(* parser of src/app.py and the chunker, embedding indexer and retriever   *)
(* of src/utils/ai_helper.py, with the session state that holds the index, *)
(* the answer proposer, the scoring of an assessment and the ANSSI         *)
(* questionnaire session of src/app.py.                                    *)
(*                                                                         *)
(* A text is a sequence of one-character strings.                          *)
(***************************************************************************)
EXTENDS Integers, Sequences, FiniteSets, TLC

VARIABLES
    p_txt,      \* parse_status_from_text: the argument txt
    p_out,      \* parse_status_from_text: the returned value, "pending" before the call
    r_index,    \* retrieve_topk: the argument index (None when absent)
    r_k,        \* retrieve_topk: the argument k
    r_svc,      \* retrieve_topk: what the embedding service answered for the query
    r_out,      \* retrieve_topk: its outcome
    r_pc,       \* retrieve_topk: "start" before the call, "done" after it
    c_file,     \* _chunk_sources: the one uploaded file of the call
    c_out,      \* _chunk_sources: its outcome
    c_pc,       \* _chunk_sources: "start" before the call, "done" after it
    has_key,        \* the session: OPENAI_API_KEY is set
    rag_available,  \* the session: RAG_AVAILABLE, the import of utils.ai_helper succeeded
    global_uploader,\* the session: the set of files held by the file_uploader widget
    uploaded_docs,  \* the session: st.session_state["uploaded_docs"]
    anssi_index,    \* the session: st.session_state["anssi_index"]
    file_pool,      \* the session: the files the user has at hand to upload
    b_pc,           \* _index_docs: "idle", or "embedding" inside the batch loop
    b_chunks,       \* build_vector_index: chunks
    b_embs,         \* build_vector_index: embs
    b_i,            \* build_vector_index: the loop variable i (kept where a call raised)
    b_outcome,      \* _index_docs: how the last build ended
    q_index,    \* propose_anssi_answer: the argument index
    q_svc,      \* propose_anssi_answer: what the embedding service answered for the query
    q_chat,     \* propose_anssi_answer: what the chat service answered
    q_out,      \* propose_anssi_answer: its outcome
    q_pc,       \* propose_anssi_answer: "start" before the call, "done" after it
    g_status,   \* the scoring pass: the argument status_map
    g_justifs,  \* the scoring pass: the argument justifs_map
    g_out,      \* the scoring pass: the result rows and the theme table
    g_pc,       \* the scoring pass: "start" before it, "done" after it
    route,              \* the session: st.session_state["route"]
    anssi_stage,        \* the session: st.session_state["anssi_stage"]
    anssi_theme_radio,  \* the session: the theme shown by the questions stage
    anssi_status,       \* the session: st.session_state["anssi_status"]
    anssi_justifs,      \* the session: st.session_state["anssi_justifs"]
    a_last,             \* the session: the last operation and how it ended
    widget_keyed,       \* the session: this Streamlit build identifies a keyed widget by its key alone
    k_status,   \* _build_anssi_action_plan_df: the statuses of the result rows
    k_client,   \* _build_anssi_action_plan_df: get_openai_client() returns a client
    k_answer,   \* _build_anssi_action_plan_df: what the chat service answers
    k_out,      \* _build_anssi_action_plan_df: the rows of the returned plan
    k_pc,       \* _build_anssi_action_plan_df: "start" before the call, "done" after it
    e_responses,\* analyse_responses: the argument responses
    e_today,    \* analyse_responses: the day datetime.now() gives
    e_first,    \* analyse_responses: the rows of the first run
    e_second,   \* analyse_responses: the rows of the second run
    e_pc,       \* analyse_responses: "start", "once" after the first run, "twice" after the second
    f_data,     \* the exports: the assessment of each session
    f_file,     \* the exports: the content of the result file in OUTPUT_DIR
    f_pc,       \* the exports: where the results pass of each session stands
    f_offered   \* the exports: what each session is offered for download

pvars == <<p_txt, p_out>>
rvars == <<r_index, r_k, r_svc, r_out, r_pc>>
cvars == <<c_file, c_out, c_pc>>
svars == <<has_key, rag_available, file_pool, global_uploader, uploaded_docs, anssi_index>>
bvars == <<b_pc, b_chunks, b_embs, b_i, b_outcome>>
qvars == <<q_index, q_svc, q_chat, q_out, q_pc>>
gvars == <<g_status, g_justifs, g_out, g_pc>>
avars == <<route, anssi_stage, anssi_theme_radio, anssi_status, anssi_justifs, a_last,
          widget_keyed>>
kvars == <<k_status, k_client, k_answer, k_out, k_pc>>
evars == <<e_responses, e_today, e_first, e_second, e_pc>>
fvars == <<f_data, f_file, f_pc, f_offered>>
nvars == <<kvars, evars, fvars>>
xvars == <<qvars, gvars, avars, nvars>>
vars == <<pvars, rvars, cvars, svars, bvars, xvars>>

None == "None"

\* an absent index (Python None); a present one has present |-> TRUE
NoIndex == [present |-> FALSE, chunks |-> <<>>, embeddings |-> <<>>]

\* answers of the embedding service to one input: a vector, or a failure
SvcFail == [ok |-> FALSE, v |-> <<>>]
SvcVec(v) == [ok |-> TRUE, v |-> v]

\* the value of r_out before the call
NoOutcome == [out |-> <<>>, calls |-> 0, raised |-> FALSE]

\* an uploaded file: its name (stem and extension), and its bytes as the
\* libraries read them: corrupt tells that fitz.open / docx.Document raise on
\* them, parts are the page texts of a PDF, the paragraph texts of a DOCX,
\* and the one byte string of a TXT
NoFile == [name |-> [stem |-> "", ext |-> ""], corrupt |-> FALSE, parts |-> <<>>]

\* the outcome of a reader or of the chunker: it raised, or returned a list
Raised == [raised |-> TRUE, list |-> <<>>]
Returns(l) == [raised |-> FALSE, list |-> l]

\* the values of the variables of the functions a specification does not call
ParseIdle == p_txt = <<>> /\ p_out = "pending"
RetrieveIdle ==
    r_index = NoIndex /\ r_k = 0 /\ r_svc = SvcFail /\ r_out = NoOutcome /\ r_pc = "start"
ChunkIdle == c_file = NoFile /\ c_out = Returns(<<>>) /\ c_pc = "start"
BuildIdle ==
    /\ b_pc = "idle"
    /\ b_chunks = <<>> /\ b_embs = <<>> /\ b_i = 0 /\ b_outcome = "none"
SessionIdle ==
    /\ has_key = FALSE /\ rag_available = FALSE /\ file_pool = {}
    /\ global_uploader = {} /\ uploaded_docs = <<>> /\ anssi_index = NoIndex
    /\ BuildIdle

(***************************************************************************)
(* Texts and substring search (Python: kw in t).                           *)
(***************************************************************************)
Uppers == <<"A","B","C","D","E","F","G","H","I","J","K","L","M","N","O","P","Q","R","S","T","U","V","W","X","Y","Z","É","È">>
Lowers == <<"a","b","c","d","e","f","g","h","i","j","k","l","m","n","o","p","q","r","s","t","u","v","w","x","y","z","é","è">>

\* str.lower() on one character
LowerChar(c) ==
    IF \E i \in 1..Len(Uppers) : Uppers[i] = c
    THEN Lowers[CHOOSE i \in 1..Len(Uppers) : Uppers[i] = c]
    ELSE c

\* str.lower()
Lower(t) == [i \in 1..Len(t) |-> LowerChar(t[i])]

\* t[i:] starts with kw (i is a 1-based position)
StartsAt(t, i, kw) ==
    /\ i >= 1
    /\ i + Len(kw) - 1 <= Len(t)
    /\ \A j \in 1..Len(kw) : t[i + j - 1] = kw[j]

\* kw in t
Contains(t, kw) == \E i \in 1..(Len(t) + 1) : StartsAt(t, i, kw)

\* the regex class \s
IsSpace(c) == c \in {" ", "\n", "\t", "\r"}

\* a dict without entry
EmptyMap == [k \in {} |-> ""]

\* a field of a JSON object as dict.get reads it: absent, null, or a string
Absent == [t |-> "absent", s |-> ""]
Null == [t |-> "null", s |-> ""]
Str(x) == [t |-> "str", s |-> x]

\* a text field of a JSON object: absent, null, or a text
AbsentText == [t |-> "absent", s |-> <<>>]
NullText == [t |-> "null", s |-> <<>>]
Text(x) == [t |-> "str", s |-> x]

\* what json.loads makes of a content: kind is "invalid" when it raises,
\* "array" for a JSON list, "object" for a JSON object
NotJson ==
    [kind |-> "invalid", status |-> Absent, justification |-> AbsentText,
     citations |-> [t |-> "absent", items |-> <<>>]]
JsonArray ==
    [kind |-> "array", status |-> Absent, justification |-> AbsentText,
     citations |-> [t |-> "absent", items |-> <<>>]]
JsonObject(st, ju, ci) ==
    [kind |-> "object", status |-> st, justification |-> ju, citations |-> ci]

\* what the chat service answered: the call raised (ok is FALSE), or it
\* returned a message whose content is None (has_content is FALSE) or a text
ChatFail == [ok |-> FALSE, has_content |-> FALSE, text |-> <<>>, loads |-> NotJson]
ChatNone == [ok |-> TRUE, has_content |-> FALSE, text |-> <<>>, loads |-> NotJson]
ChatText(text, loads) == [ok |-> TRUE, has_content |-> TRUE, text |-> text, loads |-> loads]

\* the outcome of propose_anssi_answer: it raised, or returned a dict
ProposeRaised == [raised |-> TRUE, status |-> "", justification |-> <<>>, citations |-> <<>>]
Proposal(st, ju, ci) == [raised |-> FALSE, status |-> st, justification |-> ju, citations |-> ci]

\* the value of g_out before the scoring pass
NoScore == [rows |-> <<>>, themes |-> <<>>, overall |-> 0]

ProposeIdle ==
    /\ q_index = NoIndex /\ q_svc = SvcFail /\ q_chat = ChatFail
    /\ q_out = Proposal("", <<>>, <<>>) /\ q_pc = "start"
ScoreIdle ==
    g_status = EmptyMap /\ g_justifs = EmptyMap /\ g_out = NoScore /\ g_pc = "start"
AssessIdle ==
    /\ route = "home" /\ anssi_stage = "intro" /\ anssi_theme_radio = ""
    /\ anssi_status = EmptyMap /\ anssi_justifs = EmptyMap /\ a_last = "none"
    /\ widget_keyed = FALSE

\* the chat call of the action plan raised, or its content is not JSON
PlanFail == [ok |-> FALSE, kind |-> "list", items |-> <<>>]

\* a result file that is not written yet
NoExport == [written |-> FALSE, file |-> "", rows |-> <<>>, themes |-> <<>>, overall |-> 0]

PlanIdle ==
    /\ k_status = EmptyMap /\ k_client = FALSE /\ k_answer = PlanFail
    /\ k_out = <<>> /\ k_pc = "start"
GapIdle ==
    /\ e_responses = <<>> /\ e_today = 0 /\ e_first = <<>> /\ e_second = <<>>
    /\ e_pc = "start"
ExportIdle ==
    f_data = <<>> /\ f_file = <<>> /\ f_pc = <<>> /\ f_offered = <<>>

(***************************************************************************)
(* parse_status_from_text (src/app.py)                                     *)
(***************************************************************************)
KW_not_applicable == <<"n","o","t"," ","a","p","p","l","i","c","a","b","l","e">>
KW_n_slash_a == <<"n","/","a">>
KW_n_dot_a == <<"n",".","a">>
KW_na_rpar == <<"n","a",")">>
KW_lpar_na == <<"(","n","a">>
KW_na_sp == <<"n","a"," ">>
KW_sp_non_applicable == <<" ","n","o","n"," ","a","p","p","l","i","c","a","b","l","e">>
KW_sp_hors_perimetre_acc == <<" ","h","o","r","s"," ","p","é","r","i","m","è","t","r","e">>
KW_sp_hors_perimetre == <<" ","h","o","r","s"," ","p","e","r","i","m","e","t","r","e">>

\* the list of line 262-264
NA_KEYWORDS == <<KW_not_applicable, KW_n_slash_a, KW_n_dot_a, KW_na_rpar, KW_lpar_na,
                 KW_na_sp, KW_sp_non_applicable, KW_sp_hors_perimetre_acc, KW_sp_hors_perimetre>>

S_Conforme == <<"C","o","n","f","o","r","m","e">>
S_Partiellement_conforme == <<"P","a","r","t","i","e","l","l","e","m","e","n","t"," ","c","o","n","f","o","r","m","e">>
S_Non_conforme == <<"N","o","n"," ","c","o","n","f","o","r","m","e">>
S_Pas_reponse == <<"P","a","s"," ","r","é","p","o","n","s","e">>
S_NA == <<"N","A">>

\* the characters of a status label
LabelChars(s) ==
    CASE s = "Conforme" -> S_Conforme
      [] s = "Partiellement conforme" -> S_Partiellement_conforme
      [] s = "Non conforme" -> S_Non_conforme
      [] s = "Pas réponse" -> S_Pas_reponse
      [] s = "NA" -> S_NA

\* the list scanned at line 267, in its order
SCAN_ORDER == <<"Conforme", "Partiellement conforme", "Non conforme", "Pas réponse", "NA">>

\* the list scanned at line 279, in its order
REGEX_LABELS == <<"Conforme", "Partiellement conforme", "Non conforme", "Pas réponse">>

RE_statut == <<"s","t","a","t","u","t">>
RE_status == <<"s","t","a","t","u","s">>
RE_n_slash_a == <<"n","/","a">>
RE_na == <<"n","a">>

\* the alternatives of group 2 of the regex of line 272, in their order
RE_ALTS == <<Lower(S_Conforme), Lower(S_Partiellement_conforme), Lower(S_Non_conforme),
             Lower(S_Pas_reponse), RE_na, RE_n_slash_a, KW_not_applicable>>

\* the position after the longest run of \s starting at i
RECURSIVE SkipSpaces(_, _)
SkipSpaces(t, i) ==
    IF i <= Len(t) /\ IsSpace(t[i]) THEN SkipSpaces(t, i + 1) ELSE i

\* the alternatives of group 2 with which the regex matches at position i
ReMatchesAt(t, i) ==
    { a \in 1..Len(RE_ALTS) :
        \E kw \in {RE_statut, RE_status} :
            /\ StartsAt(t, i, kw)
            /\ LET j == SkipSpaces(t, i + Len(kw))
               IN /\ j <= Len(t)
                  /\ t[j] \in {":", "-"}
                  /\ StartsAt(t, SkipSpaces(t, j + 1), RE_ALTS[a]) }

\* re.search(...): group 2 of the leftmost match, None without a match
ReSearchGroup2(t) ==
    LET starts == { i \in 1..Len(t) : ReMatchesAt(t, i) # {} }
    IN IF starts = {} THEN None
       ELSE LET i == CHOOSE x \in starts : \A y \in starts : x <= y
                a == CHOOSE x \in ReMatchesAt(t, i) : \A y \in ReMatchesAt(t, i) : x <= y
            IN RE_ALTS[a]

\* the first label of the list among those at the positions hits, None if hits is empty
FirstLabel(list, hits) ==
    IF hits = {} THEN None
    ELSE list[CHOOSE i \in hits : \A j \in hits : i <= j]

parse_status_from_text(txt) ==
    LET t == Lower(txt)
        scan == { i \in 1..Len(SCAN_ORDER) : Contains(t, Lower(LabelChars(SCAN_ORDER[i]))) }
    IN IF \E n \in 1..Len(NA_KEYWORDS) : Contains(t, NA_KEYWORDS[n])
       THEN "NA"
       ELSE IF scan # {}
       THEN FirstLabel(SCAN_ORDER, scan)
       ELSE LET val == ReSearchGroup2(t)
            IN IF val = None THEN None
               ELSE IF val \in {RE_na, RE_n_slash_a, KW_not_applicable} THEN "NA"
               ELSE FirstLabel(REGEX_LABELS,
                               { i \in 1..Len(REGEX_LABELS) :
                                   Lower(LabelChars(REGEX_LABELS[i])) = val })

(***************************************************************************)
(* The texts given to the parser: up to MaxFrags fragments.                *)
(***************************************************************************)
MaxFrags == 4

F_Statut == <<"S","t","a","t","u","t",":"," ">>
F_Dot == <<"."," ">>
F_lorem == <<"l","o","r","e","m"," ","i","p","s","u","m">>
F_NA_hors == <<"N","/","A"," ","-"," ","h","o","r","s"," ","p","é","r","i","m","è","t","r","e">>
F_analyse == <<"a","n","a","l","y","s","e">>

Fragments == { F_Statut, F_Dot, F_lorem, F_NA_hors, F_analyse,
               S_Conforme, S_Partiellement_conforme, S_Non_conforme, S_Pas_reponse, S_NA }

RECURSIVE TextsOf(_)
TextsOf(n) ==
    IF n = 0 THEN { <<>> }
    ELSE TextsOf(n - 1) \cup { t \o f : t \in TextsOf(n - 1), f \in Fragments }

InitParse ==
    /\ p_txt \in TextsOf(MaxFrags)
    /\ p_out = "pending"
    /\ RetrieveIdle
    /\ ChunkIdle
    /\ SessionIdle
    /\ ProposeIdle
    /\ ScoreIdle
    /\ AssessIdle
    /\ PlanIdle
    /\ GapIdle
    /\ ExportIdle

\* one call of parse_status_from_text
ParseStatus ==
    /\ p_out = "pending"
    /\ p_out' = parse_status_from_text(p_txt)
    /\ UNCHANGED <<p_txt, rvars, cvars, svars, bvars, xvars>>

NextParse == ParseStatus

SpecParse == InitParse /\ [][NextParse]_vars

(***************************************************************************)
(* Claims on parse_status_from_text                                        *)
(***************************************************************************)
STATUS_DOMAIN == {"Conforme", "Partiellement conforme", "Non conforme", "Pas réponse", "NA"}

\* what may follow 'Statut: L. ' without mentioning a status
NeutralRests == { <<>>, F_lorem }

\* C1: a text 'Statut: L. ...' whose only status mention is L parses to L,
\* for each of the five labels, and 'N/A - hors périmètre' parses to NA.
C1_StatutLineYieldsItsLabel ==
    p_out # "pending" =>
        /\ \A L \in STATUS_DOMAIN : \A rest \in NeutralRests :
               p_txt = F_Statut \o LabelChars(L) \o F_Dot \o rest => p_out = L
        /\ p_txt = F_NA_hors => p_out = "NA"

LowerLetters == { Lowers[i] : i \in 1..Len(Lowers) }

\* kw occurs in t as a word or phrase: not glued to a letter on either side
ContainsWord(t, kw) ==
    \E i \in 1..Len(t) :
        /\ StartsAt(t, i, kw)
        /\ (i = 1 \/ t[i - 1] \notin LowerLetters)
        /\ (i + Len(kw) > Len(t) \/ t[i + Len(kw)] \notin LowerLetters)

W_non_applicable == <<"n","o","n"," ","a","p","p","l","i","c","a","b","l","e">>
W_hors_perimetre_acc == <<"h","o","r","s"," ","p","é","r","i","m","è","t","r","e">>
W_hors_perimetre == <<"h","o","r","s"," ","p","e","r","i","m","e","t","r","e">>

\* the not-applicable phrasings and the five labels, lower-cased
StatusPhrases ==
    { KW_not_applicable, KW_n_slash_a, KW_n_dot_a, W_non_applicable,
      W_hors_perimetre_acc, W_hors_perimetre }
    \cup { Lower(LabelChars(L)) : L \in STATUS_DOMAIN }

MentionsStatus(txt) == \E ph \in StatusPhrases : ContainsWord(Lower(txt), ph)

\* C2: a text that mentions no status (no not-applicable phrasing and none of
\* the five labels as a word or phrase) parses to None.
C2_NoMentionNoStatus ==
    (p_out # "pending" /\ ~MentionsStatus(p_txt)) => p_out = None

(***************************************************************************)
(* Retriever (src/utils/ai_helper.py)                                      *)
(*                                                                         *)
(* A vector is a tuple of integers.  A similarity is kept as the fraction  *)
(* num/den, den > 0, whose value is sign(c) * c^2 for the cosine c: the    *)
(* map is strictly increasing, so the order and the ties of the            *)
(* similarities are those of the cosines.                                  *)
(***************************************************************************)
\* np.dot(a, b) for vectors of two components
Dot(a, b) == a[1] * b[1] + a[2] * b[2]

\* np.any(a)
AnyNonZero(a) == \E i \in 1..Len(a) : a[i] # 0

Sgn(x) == IF x > 0 THEN 1 ELSE IF x < 0 THEN -1 ELSE 0

_cosine_sim(a, b) ==
    IF ~AnyNonZero(a) \/ ~AnyNonZero(b)
    THEN [num |-> 0, den |-> 1]
    ELSE [num |-> Sgn(Dot(a, b)) * Dot(a, b) * Dot(a, b), den |-> Dot(a, a) * Dot(b, b)]

SimLt(x, y) == x.num * y.den < y.num * x.den
SimEq(x, y) == x.num * y.den = y.num * x.den

\* the order a sort without reverse=True would use
TupleGt_ascending(x, y) == SimLt(x[1], y[1]) \/ (SimEq(x[1], y[1]) /\ x[2] < y[2])

\* the order of Python tuples (similarity, j): x > y
TupleGt(x, y) == SimLt(y[1], x[1]) \/ (SimEq(x[1], y[1]) /\ x[2] > y[2])

\* list.sort(reverse=True) of tuples with pairwise distinct second components
RECURSIVE SortReverse(_)
SortReverse(S) ==
    IF S = {} THEN <<>>
    ELSE LET m == CHOOSE x \in S : \A y \in S \ {x} : TupleGt(x, y)
         IN <<m>> \o SortReverse(S \ {m})

\* s[:k] for k >= 0
Prefix(s, k) == SubSeq(s, 1, IF k < Len(s) THEN k ELSE Len(s))

\* retrieve_topk without the guard of lines 102-103
retrieve_topk_unguarded(index, svc, k) ==
    IF ~svc.ok
    THEN [out |-> <<>>, calls |-> 1, raised |-> TRUE]
    ELSE LET sims == { <<_cosine_sim(svc.v, index.embeddings[j]), j>> :
                          j \in 1..Len(index.embeddings) }
             top == Prefix(SortReverse(sims), k)
         IN [out |-> [i \in 1..Len(top) |->
                        [doc |-> index.chunks[top[i][2]].doc,
                         page |-> index.chunks[top[i][2]].page,
                         text |-> index.chunks[top[i][2]].text]],
             calls |-> 1, raised |-> FALSE]

\* retrieve_topk(index, query, k), svc being what the embedding service
\* answers for the query (SvcFail: the call raises).
\* calls counts the embedding calls made; raised tells that the call raised.
retrieve_topk(index, svc, k) ==
    IF ~index.present \/ Len(index.chunks) = 0
    THEN [out |-> <<>>, calls |-> 0, raised |-> FALSE]
    ELSE IF ~svc.ok
    THEN [out |-> <<>>, calls |-> 1, raised |-> TRUE]
    ELSE LET sims == { <<_cosine_sim(svc.v, index.embeddings[j]), j>> :
                          j \in 1..Len(index.embeddings) }
             top == Prefix(SortReverse(sims), k)
         IN [out |-> [i \in 1..Len(top) |->
                        [doc |-> index.chunks[top[i][2]].doc,
                         page |-> index.chunks[top[i][2]].page,
                         text |-> index.chunks[top[i][2]].text]],
             calls |-> 1, raised |-> FALSE]

(***************************************************************************)
(* The indexes, queries and k given to the retriever.                      *)
(***************************************************************************)
MaxChunks == 3
MaxK == 4

\* the zero vector, two parallel vectors of different length, and vectors
\* orthogonal, oblique and opposite to them
Vectors == { <<0, 0>>, <<1, 0>>, <<2, 0>>, <<0, 1>>, <<1, 1>>, <<-1, 0>> }

\* the j-th chunk of a sample index: its page tells its position
SampleChunk(j) == [doc |-> "policy.txt", page |-> j, text |-> [i \in 1..j |-> "x"]]

\* no index, and the indexes of up to max chunks
SampleIndexes(max) ==
    { NoIndex }
    \cup UNION { { [present |-> TRUE, chunks |-> [j \in 1..n |-> SampleChunk(j)], embeddings |-> E] :
                    E \in [1..n -> Vectors] } : n \in 0..max }

InitRetrieve ==
    /\ r_index \in SampleIndexes(MaxChunks)
    /\ r_k \in 0..MaxK
    /\ r_svc = SvcFail
    /\ r_out = NoOutcome
    /\ r_pc = "start"
    /\ ParseIdle
    /\ ChunkIdle
    /\ SessionIdle
    /\ ProposeIdle
    /\ ScoreIdle
    /\ AssessIdle
    /\ PlanIdle
    /\ GapIdle
    /\ ExportIdle

\* one call of retrieve_topk
RetrieveTopk ==
    /\ r_pc = "start"
    /\ \E svc \in { SvcVec(v) : v \in Vectors } \cup { SvcFail } :
          /\ r_svc' = svc
          /\ r_out' = retrieve_topk(r_index, svc, r_k)
    /\ r_pc' = "done"
    /\ UNCHANGED <<r_index, r_k, pvars, cvars, svars, bvars, xvars>>

NextRetrieve == RetrieveTopk

SpecRetrieve == InitRetrieve /\ [][NextRetrieve]_vars

(***************************************************************************)
(* Claims on retrieve_topk                                                 *)
(***************************************************************************)
\* the call returned a ranking of a non-empty index
Ranked == r_pc = "done" /\ r_index.present /\ Len(r_index.chunks) > 0 /\ ~r_out.raised

\* the similarity of the j-th indexed chunk to the query
SimOf(j) == _cosine_sim(r_svc.v, r_index.embeddings[j])

\* the index positions returned, in rank order (a sample chunk's page is its position)
Ranking == [i \in 1..Len(r_out.out) |-> r_out.out[i].page]

RankOf(j) == CHOOSE i \in 1..Len(Ranking) : Ranking[i] = j
InRanking(j) == \E i \in 1..Len(Ranking) : Ranking[i] = j

\* C3: of two chunks with equal similarity the one indexed first is ranked
\* first, and it is the one kept when only one of the two is returned.
C3_TieFirstIndexedWins ==
    Ranked =>
        \A i, j \in 1..Len(r_index.chunks) :
            (i < j /\ SimEq(SimOf(i), SimOf(j))) =>
                /\ InRanking(j) => InRanking(i)
                /\ (InRanking(i) /\ InRanking(j)) => RankOf(i) < RankOf(j)

Min(a, b) == IF a < b THEN a ELSE b

\* C4: on a non-empty index of n chunks retrieve_topk returns min(k, n)
\* entries, each the doc/page/text of a distinct indexed chunk, in
\* non-increasing order of similarity, and no chunk left out is strictly
\* more similar than a returned one.
C4_TopKRanking ==
    Ranked =>
        /\ Len(r_out.out) = Min(r_k, Len(r_index.chunks))
        /\ \A i \in 1..Len(Ranking) :
              /\ Ranking[i] \in 1..Len(r_index.chunks)
              /\ r_out.out[i] = r_index.chunks[Ranking[i]]
        /\ \A a, b \in 1..Len(Ranking) : a # b => Ranking[a] # Ranking[b]
        /\ \A a, b \in 1..Len(Ranking) :
              a < b => ~SimLt(SimOf(Ranking[a]), SimOf(Ranking[b]))
        /\ \A j \in 1..Len(r_index.chunks) : \A a \in 1..Len(Ranking) :
              ~InRanking(j) => ~SimLt(SimOf(Ranking[a]), SimOf(j))

\* a ranking of three chunks cut to two, the two of different similarity,
\* the chunk left out being strictly less similar than both
C4_Witness ==
    /\ Ranked
    /\ Len(r_index.chunks) = 3 /\ r_k = 2 /\ Len(Ranking) = 2
    /\ SimLt(SimOf(Ranking[2]), SimOf(Ranking[1]))
    /\ \E j \in 1..3 : ~InRanking(j) /\ SimLt(SimOf(j), SimOf(Ranking[2]))

\* C5: for an absent or zero-chunk index retrieve_topk returns the empty
\* sequence, makes no embedding call and does not raise.
C5_EmptyIndexEmptyResult ==
    (r_pc = "done" /\ (~r_index.present \/ Len(r_index.chunks) = 0)) =>
        /\ r_out.out = <<>>
        /\ r_out.calls = 0
        /\ ~r_out.raised

\* a call with k > 0 on a built index of zero chunks, the service being down
C5_Witness ==
    /\ r_pc = "done"
    /\ r_index.present /\ Len(r_index.chunks) = 0
    /\ r_k > 0
    /\ ~r_svc.ok

(***************************************************************************)
(* Chunker (src/utils/ai_helper.py)                                        *)
(***************************************************************************)
Step == 1800

\* a byte that is not valid UTF-8
BadByte == "\\xff"

IsValidByte(c) == c # BadByte

\* b.decode("utf-8", errors="ignore")
Decode(b) == SelectSeq(b, IsValidByte)

\* txt and txt.strip(): the text has a character that is not whitespace
HasText(t) == \E i \in 1..Len(t) : ~IsSpace(t[i])

\* str.strip()
Strip(t) ==
    IF ~HasText(t) THEN <<>>
    ELSE LET first == CHOOSE i \in 1..Len(t) :
                          ~IsSpace(t[i]) /\ \A j \in 1..(i - 1) : IsSpace(t[j])
             last == CHOOSE i \in 1..Len(t) :
                          ~IsSpace(t[i]) /\ \A j \in (i + 1)..Len(t) : IsSpace(t[j])
         IN SubSeq(t, first, last)

\* "\n".join(paras)
RECURSIVE JoinLines(_)
JoinLines(paras) ==
    IF Len(paras) = 0 THEN <<>>
    ELSE IF Len(paras) = 1 THEN paras[1]
    ELSE paras[1] \o <<"\n">> \o JoinLines(Tail(paras))

\* windows whose slice is one character too long: text[idx:idx+step+1]
Windows_overlong(doc_name, text, step) ==
    LET n == (Len(text) + step - 1) \div step
    IN [w \in 1..n |->
          LET idx == (w - 1) * step
          IN <<doc_name, 1 + idx \div step,
               SubSeq(text, idx + 1, IF idx + step + 1 < Len(text) THEN idx + step + 1 ELSE Len(text))>>]

\* windows whose stride is one character too long: range(0, len(text), step + 1)
Windows_gapped(doc_name, text, step) ==
    LET n == (Len(text) + step) \div (step + 1)
    IN [w \in 1..n |->
          LET idx == (w - 1) * (step + 1)
          IN <<doc_name, 1 + idx \div step,
               SubSeq(text, idx + 1, IF idx + step < Len(text) THEN idx + step ELSE Len(text))>>]

\* windows whose synthetic page counts from 0: idx // step
Windows_page_from_zero(doc_name, text, step) ==
    LET n == (Len(text) + step - 1) \div step
    IN [w \in 1..n |->
          LET idx == (w - 1) * step
          IN <<doc_name, idx \div step,
               SubSeq(text, idx + 1, IF idx + step < Len(text) THEN idx + step ELSE Len(text))>>]

\* the loop "for idx in range(0, len(text), step)" of both window readers:
\* the w-th window starts at offset idx = (w - 1) * step
Windows(doc_name, text, step) ==
    LET n == (Len(text) + step - 1) \div step
    IN [w \in 1..n |->
          LET idx == (w - 1) * step
          IN <<doc_name, 1 + idx \div step,
               SubSeq(text, idx + 1, IF idx + step < Len(text) THEN idx + step ELSE Len(text))>>]

_read_pdf_bytes(b) ==
    IF b.corrupt THEN Raised
    ELSE LET Kept(i) == HasText(b.parts[i])
             \* the numbers of the pages kept, in page order
             keep == SelectSeq([i \in 1..Len(b.parts) |-> i], Kept)
         IN Returns([k \in 1..Len(keep) |-> <<"document.pdf", keep[k], b.parts[keep[k]]>>])

_read_docx_bytes(b) ==
    IF b.corrupt THEN Raised
    ELSE LET stripped == [i \in 1..Len(b.parts) |-> Strip(b.parts[i])]
             NonEmpty(t) == Len(t) > 0
             paras == SelectSeq(stripped, NonEmpty)
         IN Returns(Windows("document.docx", JoinLines(paras), Step))

_read_txt_bytes(b) ==
    LET t == IF Len(b.parts) = 0 THEN <<>> ELSE Decode(b.parts[1])
    IN Returns(Windows("document.txt", t, Step))

\* name.lower() of the extension
LowerExt(ext) ==
    CASE ext = ".PDF" -> ".pdf"
      [] ext = ".DOCX" -> ".docx"
      [] ext = ".TXT" -> ".txt"
      [] OTHER -> ext

\* the branch of lines 53-61 for one file: "skip" is the continue
ReadFile(f) ==
    CASE LowerExt(f.name.ext) = ".pdf" -> _read_pdf_bytes(f)
      [] LowerExt(f.name.ext) = ".docx" -> _read_docx_bytes(f)
      [] LowerExt(f.name.ext) = ".txt" -> _read_txt_bytes(f)
      [] OTHER -> Returns(<<>>)

\* name or doc_name
NameOr(name, doc_name) ==
    IF name.stem = "" /\ name.ext = "" THEN [stem |-> doc_name, ext |-> ""] ELSE name

\* the chunks lines 62-67 append for one file
FileChunks(f, parts) ==
    [i \in 1..Len(parts) |->
        [doc |-> NameOr(f.name, parts[i][1]), page |-> parts[i][2], text |-> parts[i][3]]]

\* _chunk_sources(uploaded_files): an exception of a reader leaves the loop
RECURSIVE _chunk_sources(_)
_chunk_sources(uploaded_files) ==
    IF Len(uploaded_files) = 0 THEN Returns(<<>>)
    ELSE LET parts == ReadFile(uploaded_files[1])
             rest == _chunk_sources(Tail(uploaded_files))
         IN IF parts.raised \/ rest.raised THEN Raised
            ELSE Returns(FileChunks(uploaded_files[1], parts.list) \o rest.list)

(***************************************************************************)
(* The files given to the chunker: texts of up to MaxRuns runs of one      *)
(* character, split into up to MaxParts pages or paragraphs.               *)
(***************************************************************************)
MaxRuns == 2
MaxParts == 2

Rep(c, n) == [i \in 1..n |-> c]

RunLens == {1, Step - 1, Step}
ByteRuns == { Rep(c, n) : c \in {"a", " ", BadByte}, n \in RunLens }
PartRuns == { Rep("a", Step), Rep(" ", 1) }

RECURSIVE RunTexts(_, _)
RunTexts(runs, n) ==
    IF n = 0 THEN { <<>> }
    ELSE RunTexts(runs, n - 1) \cup { t \o r : t \in RunTexts(runs, n - 1), r \in runs }

RECURSIVE SeqsUpTo(_, _)
SeqsUpTo(S, n) ==
    IF n = 0 THEN { <<>> }
    ELSE SeqsUpTo(S, n - 1) \cup { Append(q, x) : q \in SeqsUpTo(S, n - 1), x \in S }

\* the TXT files of up to runs runs
TxtFiles(runs) ==
    { [name |-> [stem |-> "notes", ext |-> ".txt"], corrupt |-> FALSE, parts |-> <<t>>] :
        t \in RunTexts(ByteRuns, runs) }

\* the PDF and DOCX files of up to parts pages or paragraphs of up to runs runs
PagedFiles(runs, parts) ==
    { [name |-> [stem |-> "policy", ext |-> e], corrupt |-> FALSE, parts |-> ps] :
        e \in {".PDF", ".docx"}, ps \in SeqsUpTo(RunTexts(PartRuns, runs), parts) }

OtherFiles ==
    { [name |-> [stem |-> "policy", ext |-> e], corrupt |-> TRUE, parts |-> <<>>] :
        e \in {".pdf", ".docx"} }
    \cup { [name |-> [stem |-> "logo", ext |-> ".png"], corrupt |-> FALSE, parts |-> <<>>] }

\* a TXT document of 5000 characters
F_scenario ==
    [name |-> [stem |-> "scenario", ext |-> ".txt"], corrupt |-> FALSE,
     parts |-> << Rep("a", 5000) >>]

InitChunk ==
    /\ c_file \in TxtFiles(MaxRuns) \cup PagedFiles(MaxRuns, MaxParts) \cup OtherFiles
                 \cup { F_scenario }
    /\ c_out = Returns(<<>>)
    /\ c_pc = "start"
    /\ ParseIdle
    /\ RetrieveIdle
    /\ SessionIdle
    /\ ProposeIdle
    /\ ScoreIdle
    /\ AssessIdle
    /\ PlanIdle
    /\ GapIdle
    /\ ExportIdle

\* one call of _chunk_sources on one uploaded file
ChunkSources ==
    /\ c_pc = "start"
    /\ c_out' = _chunk_sources(<<c_file>>)
    /\ c_pc' = "done"
    /\ UNCHANGED <<c_file, pvars, rvars, svars, bvars, xvars>>

NextChunk == ChunkSources

SpecChunk == InitChunk /\ [][NextChunk]_vars

(***************************************************************************)
(* Embedding indexer (src/utils/ai_helper.py) and the session that holds   *)
(* the uploaded documents and the index (src/app.py)                       *)
(***************************************************************************)
Guardrail == 8000
BatchSize == 100

\* the hosted embedding model: a fixed function of the input text, here the
\* presence of the letters a and b
EmbedModel(text) ==
    << IF \E i \in 1..Len(text) : text[i] = "a" THEN 1 ELSE 0,
       IF \E i \in 1..Len(text) : text[i] = "b" THEN 1 ELSE 0 >>

\* c["text"][:8000]
Guarded(text) == SubSeq(text, 1, IF Len(text) < Guardrail THEN Len(text) ELSE Guardrail)

\* the rows a batch appends, were the offset of the batch forgotten: texts[0:100]
BatchEmbeddings_first_batch(chunks, i) ==
    LET n == IF Len(chunks) < BatchSize THEN Len(chunks) ELSE BatchSize
    IN [j \in 1..n |-> EmbedModel(Guarded(chunks[j].text))]

\* the rows lines 90-93 append for the batch texts[i:i+100] when the call succeeds
BatchEmbeddings(chunks, i) ==
    LET n == IF Len(chunks) - i < BatchSize THEN Len(chunks) - i ELSE BatchSize
    IN [j \in 1..n |-> EmbedModel(Guarded(chunks[i + j].text))]

\* an index of no chunk (line 83)
EmptyIndex == [present |-> TRUE, chunks |-> <<>>, embeddings |-> <<>>]

\* the index of lines 95-99 (its meta list, which nothing reads, is left out)
BuiltIndex(chunks, embs) == [present |-> TRUE, chunks |-> chunks, embeddings |-> embs]

\* the session's index after a build that raised, were line 630 to store what
\* the build had so far
IndexAfterRaise_partial(index, chunks, embs) ==
    BuiltIndex(SubSeq(chunks, 1, Len(embs)), embs)

\* the session's index after a build that raised: the exception leaves
\* _index_docs before the assignment of line 630
IndexAfterRaise(index, chunks, embs) == index

\* _file_sha1: the digest stands for the bytes (no collision is modelled)
_file_sha1(f) == [corrupt |-> f.corrupt, parts |-> f.parts]

\* lines 153-165 of render_global_uploader for one file of the widget: it
\* is appended unless its digest is already stored
AddNewFile(docs, f) ==
    IF \E k \in 1..Len(docs) : _file_sha1(docs[k]) = _file_sha1(f)
    THEN docs
    ELSE Append(docs, f)

(***************************************************************************)
(* The files a session uploads.                                            *)
(***************************************************************************)
MaxDocs == 2

\* a text of more than one window
F_notes ==
    [name |-> [stem |-> "notes", ext |-> ".txt"], corrupt |-> FALSE,
     parts |-> << Rep("a", Step) \o <<"b">> >>]

\* a PDF with a page longer than the guardrail, a blank page, and short
\* pages enough to need a second batch
F_long ==
    [name |-> [stem |-> "long", ext |-> ".PDF"], corrupt |-> FALSE,
     parts |-> << Rep("a", Guardrail) \o <<"b">>, <<" ">> >>
               \o [i \in 1..BatchSize |-> IF i % 2 = 1 THEN <<"a">> ELSE <<"b">>]]

\* a PDF that fitz cannot open
F_broken ==
    [name |-> [stem |-> "broken", ext |-> ".pdf"], corrupt |-> TRUE, parts |-> <<>>]

SessionFiles == { F_notes, F_long, F_broken }

Init ==
    /\ has_key \in BOOLEAN
    /\ rag_available \in BOOLEAN
    /\ file_pool = SessionFiles
    /\ global_uploader = {}
    /\ uploaded_docs = <<>>
    /\ anssi_index = NoIndex
    /\ BuildIdle
    /\ ParseIdle
    /\ RetrieveIdle
    /\ ChunkIdle
    /\ ProposeIdle
    /\ ScoreIdle
    /\ AssessIdle
    /\ PlanIdle
    /\ GapIdle
    /\ ExportIdle

\* the user drops a file into the uploader widget; the pass that follows
\* stores it (every stored document was stored when it entered the widget,
\* so the other files of the widget are stored already)
UploaderAdd ==
    /\ b_pc = "idle"
    /\ Len(uploaded_docs) < MaxDocs
    /\ \E f \in file_pool \ global_uploader :
          /\ global_uploader' = global_uploader \cup {f}
          /\ uploaded_docs' = AddNewFile(uploaded_docs, f)
    /\ UNCHANGED <<has_key, rag_available, file_pool, anssi_index, bvars, pvars, rvars, cvars, xvars>>

\* the user takes a file out of the uploader widget; the stored documents stay
UploaderClear ==
    /\ b_pc = "idle"
    /\ \E f \in global_uploader : global_uploader' = global_uploader \ {f}
    /\ UNCHANGED <<has_key, rag_available, file_pool, uploaded_docs, anssi_index, bvars, pvars, rvars, cvars, xvars>>

\* "Retirer" that also discards the index built from the documents
Retirer_drops_index ==
    /\ b_pc = "idle"
    /\ \E k \in 1..Len(uploaded_docs) :
          LET sig == _file_sha1(uploaded_docs[k])
              Other(x) == _file_sha1(x) # sig
              rest == SelectSeq(uploaded_docs, Other)
          IN uploaded_docs' =
                IF uploaded_docs[k] \in global_uploader
                THEN AddNewFile(rest, uploaded_docs[k])
                ELSE rest
    /\ anssi_index' = NoIndex
    /\ UNCHANGED <<has_key, rag_available, file_pool, global_uploader, bvars, pvars, rvars, cvars, xvars>>

\* "Retirer" (lines 183-187): the entries with that digest are dropped; the
\* pass st.rerun() starts stores the file again if the widget still holds it
RetirerAt(k) ==
    /\ b_pc = "idle"
    /\ k \in 1..Len(uploaded_docs)
    /\ LET sig == _file_sha1(uploaded_docs[k])
           Other(x) == _file_sha1(x) # sig
           rest == SelectSeq(uploaded_docs, Other)
       IN uploaded_docs' =
             IF uploaded_docs[k] \in global_uploader
             THEN AddNewFile(rest, uploaded_docs[k])
             ELSE rest
    /\ UNCHANGED <<has_key, rag_available, file_pool, global_uploader, anssi_index, bvars, pvars, rvars, cvars, xvars>>

\* the "Retirer" button of any stored document
Retirer == \E k \in 1..Len(uploaded_docs) : RetirerAt(k)

\* _index_docs up to the first embedding call: the early returns, the
\* client, the chunking, and the index of no chunk
IndexDocs ==
    /\ b_pc = "idle"
    /\ b_embs' = <<>>
    /\ b_i' = 0
    /\ IF Len(uploaded_docs) = 0
       THEN /\ b_outcome' = "no_docs"
            /\ UNCHANGED <<anssi_index, b_pc, b_chunks>>
       ELSE IF ~rag_available
       THEN /\ b_outcome' = "no_rag"
            /\ UNCHANGED <<anssi_index, b_pc, b_chunks>>
       ELSE IF ~has_key
       THEN \* OpenAI() raises without a key
            /\ b_outcome' = "raised_client"
            /\ anssi_index' = IndexAfterRaise(anssi_index, <<>>, <<>>)
            /\ UNCHANGED <<b_pc, b_chunks>>
       ELSE LET res == _chunk_sources(uploaded_docs)
            IN IF res.raised
               THEN /\ b_outcome' = "raised_chunking"
                    /\ anssi_index' = IndexAfterRaise(anssi_index, <<>>, <<>>)
                    /\ UNCHANGED <<b_pc, b_chunks>>
               ELSE IF Len(res.list) = 0
               THEN /\ b_outcome' = "ok"
                    /\ anssi_index' = EmptyIndex
                    /\ UNCHANGED <<b_pc, b_chunks>>
               ELSE /\ b_outcome' = "running"
                    /\ b_pc' = "embedding"
                    /\ b_chunks' = res.list
                    /\ UNCHANGED anssi_index
    /\ UNCHANGED <<has_key, rag_available, file_pool, global_uploader, uploaded_docs, pvars, rvars, cvars, xvars>>

\* one embedding call of the batch loop (lines 89-93): it answers or raises
EmbedBatch ==
    /\ b_pc = "embedding"
    /\ b_i < Len(b_chunks)
    /\ \E ok \in BOOLEAN :
          IF ok
          THEN /\ b_embs' = b_embs \o BatchEmbeddings(b_chunks, b_i)
               /\ b_i' = b_i + BatchSize
               /\ UNCHANGED <<anssi_index, b_pc, b_chunks, b_outcome>>
          ELSE /\ anssi_index' = IndexAfterRaise(anssi_index, b_chunks, b_embs)
               /\ b_pc' = "idle"
               /\ b_outcome' = "raised_embedding"
               /\ b_chunks' = <<>>
               /\ b_embs' = <<>>
               /\ UNCHANGED b_i
    /\ UNCHANGED <<has_key, rag_available, file_pool, global_uploader, uploaded_docs, pvars, rvars, cvars, xvars>>

\* the end of the batch loop: the index is returned and stored (lines 94-99, 630)
IndexDocsDone ==
    /\ b_pc = "embedding"
    /\ b_i >= Len(b_chunks)
    /\ anssi_index' = BuiltIndex(b_chunks, b_embs)
    /\ b_pc' = "idle"
    /\ b_outcome' = "ok"
    /\ b_chunks' = <<>>
    /\ b_embs' = <<>>
    /\ b_i' = 0
    /\ UNCHANGED <<has_key, rag_available, file_pool, global_uploader, uploaded_docs, pvars, rvars, cvars, xvars>>

Next ==
    \/ UploaderAdd
    \/ UploaderClear
    \/ Retirer
    \/ IndexDocs
    \/ EmbedBatch
    \/ IndexDocsDone

Spec == Init /\ [][Next]_vars

\* the stored documents without the one at place k
Without(docs, k) == [i \in 1..(Len(docs) - 1) |-> IF i < k THEN docs[i] ELSE docs[i + 1]]

\* C29: no two stored documents have the same SHA-1, and after "Retirer"
\* of a stored document the stored documents are the others, in their
\* order.
C29_UploaderSha1 ==
    /\ [](\A i, j \in 1..Len(uploaded_docs) :
             i # j => _file_sha1(uploaded_docs[i]) # _file_sha1(uploaded_docs[j]))
    /\ [][\A k \in 1..MaxDocs :
             RetirerAt(k) => uploaded_docs' = Without(uploaded_docs, k)]_vars

\* no two stored documents have the same SHA-1, and "Retirer" of a
\* document the uploader widget no longer holds leaves the others in order
C29_WhenWidgetCleared ==
    /\ [](\A i, j \in 1..Len(uploaded_docs) :
             i # j => _file_sha1(uploaded_docs[i]) # _file_sha1(uploaded_docs[j]))
    /\ [][\A k \in 1..MaxDocs :
             (RetirerAt(k) /\ uploaded_docs[k] \notin global_uploader)
                 => uploaded_docs' = Without(uploaded_docs, k)]_vars

RaisedOutcomes == {"raised_client", "raised_chunking", "raised_embedding"}

\* C7: a build in which an embedding call fails leaves the session's index
\* as it was before the build, and the session's index changes only when a
\* build ends well, to an index of all the chunks of the uploaded documents.
C7_FailedBuildKeepsIndex ==
    [][ /\ b_outcome' \in RaisedOutcomes => anssi_index' = anssi_index
        /\ anssi_index' # anssi_index =>
              /\ b_outcome' = "ok"
              /\ anssi_index'.present
              /\ anssi_index'.chunks = _chunk_sources(uploaded_docs).list
              /\ Len(anssi_index'.embeddings) = Len(anssi_index'.chunks) ]_vars

\* a rebuild whose second embedding call failed, the earlier index still held
C7_Witness ==
    /\ b_outcome = "raised_embedding"
    /\ b_i = BatchSize
    /\ anssi_index.present
    /\ Len(anssi_index.chunks) > 0

IsCorrupt(f) == f.corrupt /\ LowerExt(f.name.ext) \in {".pdf", ".docx"}
IsSound(f) == ~IsCorrupt(f)

\* the chunks a build started by this step works on
ChunksOfBuild == IF b_outcome' = "running" THEN b_chunks' ELSE anssi_index'.chunks

\* C8: a build over documents of which one is corrupt does not fail in the
\* chunker: the corrupt document gives no chunk and the chunks of the other
\* documents are all there.
C8_CorruptDocumentSkipped ==
    [][ ( /\ IndexDocs
          /\ rag_available /\ has_key
          /\ \E k \in 1..Len(uploaded_docs) : IsCorrupt(uploaded_docs[k]) )
        => /\ b_outcome' \in {"ok", "running"}
           /\ ChunksOfBuild = _chunk_sources(SelectSeq(uploaded_docs, IsSound)).list ]_vars

(***************************************************************************)
(* Claims on the chunker                                                   *)
(***************************************************************************)
\* the call returned the chunks of c_file
Chunked == c_pc = "done" /\ ~c_out.raised

FileKind == LowerExt(c_file.name.ext)

RECURSIVE ConcatTexts(_)
ConcatTexts(texts) ==
    IF Len(texts) = 0 THEN <<>> ELSE texts[1] \o ConcatTexts(Tail(texts))

ChunkTexts == [i \in 1..Len(c_out.list) |-> c_out.list[i].text]

\* the text the DOCX reader extracts: the non-blank paragraphs, stripped,
\* each but the first preceded by a line break
DocxText ==
    LET NonBlank(t) == HasText(t)
        kept == SelectSeq(c_file.parts, NonBlank)
    IN ConcatTexts([k \in 1..Len(kept) |->
           IF k = 1 THEN Strip(kept[k]) ELSE <<"\n">> \o Strip(kept[k])])

\* the text extracted from c_file, as its segments: the pages of a PDF, the
\* one text of a DOCX or of a TXT
ExtractedSegments ==
    CASE FileKind = ".pdf" -> c_file.parts
      [] FileKind = ".docx" -> <<DocxText>>
      [] FileKind = ".txt" -> <<SelectSeq(c_file.parts[1], IsValidByte)>>
      [] OTHER -> <<>>

\* C10: the chunk texts concatenated in emission order are the extracted
\* text without its whitespace-only segments; so the chunks cover it with no
\* overlap and no gap.
C10_ChunksCoverExtractedText ==
    Chunked =>
        LET NonBlank(t) == HasText(t)
        IN \/ ConcatTexts(ChunkTexts) = ConcatTexts(ExtractedSegments)
           \/ ConcatTexts(ChunkTexts) = ConcatTexts(SelectSeq(ExtractedSegments, NonBlank))

\* a DOCX of two paragraphs cut into several windows
C10_Witness ==
    /\ Chunked
    /\ FileKind = ".docx"
    /\ Len(c_file.parts) = 2 /\ HasText(c_file.parts[1]) /\ HasText(c_file.parts[2])
    /\ Len(c_out.list) >= 2

\* C11: the chunker never emits a chunk whose text is empty or whitespace-only,
\* for a PDF page as for a DOCX or TXT window.
C11_NoBlankChunk ==
    Chunked => \A i \in 1..Len(c_out.list) : HasText(c_out.list[i].text)

\* the length of the text extracted from a DOCX or TXT c_file
ExtractedLen == Len(ConcatTexts(ExtractedSegments))

\* the offset at which the i-th chunk starts: the characters emitted before it
OffsetOf(i) == Len(ConcatTexts(SubSeq(ChunkTexts, 1, i - 1)))

PROPOSER_STATUSES == {"Conforme", "Partiellement conforme", "Non conforme", "Non applicable"}

\* str.strip() of the short strings of the payloads
StripStr(x) ==
    CASE x = " Non conforme " -> "Non conforme"
      [] x = "  " -> ""
      [] OTHER -> x

\* str(data.get(key, "")) of a string field
StrOf(field) ==
    CASE field.t = "absent" -> ""
      [] field.t = "null" -> "None"
      [] OTHER -> field.s

\* str(data.get(key, "")) of a text field
TextOf(field) ==
    CASE field.t = "absent" -> <<>>
      [] field.t = "null" -> <<"N", "o", "n", "e">>
      [] OTHER -> field.s

\* the value of "page" in a citation entry: isdigit is str(page).isdigit(),
\* int_ok tells that int(page) returns, val is the integer it returns
Page(isdigit, int_ok, val) == [isdigit |-> isdigit, int_ok |-> int_ok, val |-> val]

\* a citation entry: a JSON object with doc and page, or another JSON value
Entry(doc, page) == [isdict |-> TRUE, doc |-> doc, page |-> page]
NotAnObject == [isdict |-> FALSE, doc |-> Absent, page |-> Page(FALSE, FALSE, 0)]

\* the loop of lines 159-163: an entry without .get, or a page int() rejects, raises
RECURSIVE FilterCitations(_)
FilterCitations(cits) ==
    IF Len(cits) = 0 THEN Returns(<<>>)
    ELSE LET c == cits[1]
             rest == FilterCitations(Tail(cits))
         IN IF ~c.isdict THEN Raised
            ELSE IF c.page.isdigit /\ ~c.page.int_ok THEN Raised
            ELSE IF rest.raised THEN Raised
            ELSE LET d == StripStr(StrOf(c.doc))
                     p_set == c.page.isdigit /\ c.page.val # 0
                 IN IF d # "" /\ p_set
                    THEN Returns(<<[doc |-> d, page |-> c.page.val]>> \o rest.list)
                    ELSE rest

\* the except branch of lines 167-169
Fallback(content) == Proposal("Non évalué", Prefix(content, 800), <<>>)

\* the fallback that returns the whole content as justification
ParseContent_untruncated(content, data) ==
    IF data.kind # "object" THEN Proposal("Non évalué", content, <<>>)
    ELSE LET given == StripStr(StrOf(data.status))
             status == IF given \in PROPOSER_STATUSES THEN given
                       ELSE IF given # "" THEN "Partiellement conforme" ELSE "Non évalué"
             justif == Strip(TextOf(data.justification))
             cits == IF data.citations.t = "list" \/ data.citations.t = "absent"
                     THEN data.citations.items ELSE <<>>
             citations == FilterCitations(cits)
         IN IF citations.raised THEN Proposal("Non évalué", content, <<>>)
            ELSE Proposal(status, justif, citations.list)

\* lines 147-169: data is what json.loads(content) gives
ParseContent(content, data) ==
    IF data.kind # "object" THEN Fallback(content)
    ELSE LET given == StripStr(StrOf(data.status))
             status == IF given \in PROPOSER_STATUSES THEN given
                       ELSE IF given # "" THEN "Partiellement conforme" ELSE "Non évalué"
             justif == Strip(TextOf(data.justification))
             cits == IF data.citations.t = "list" \/ data.citations.t = "absent"
                     THEN data.citations.items ELSE <<>>
             citations == FilterCitations(cits)
         IN IF citations.raised THEN Fallback(content)
            ELSE Proposal(status, justif, citations.list)

\* propose_anssi_answer(requirement, question, index): svc is what the
\* embedding service answers for the query, chat what the chat service
\* answers; neither call is inside the try
propose_anssi_answer(index, svc, chat) ==
    LET top == retrieve_topk(index, svc, 6)
    IN IF top.raised THEN ProposeRaised
       ELSE IF ~chat.ok THEN ProposeRaised
       ELSE IF ~chat.has_content THEN ProposeRaised
       ELSE ParseContent(Strip(chat.text), chat.loads)

(***************************************************************************)
(* The answers given to the proposer: payloads of up to MaxCits citation   *)
(* entries, and contents that are no JSON object.                          *)
(***************************************************************************)
MaxCits == 2

StatusFields ==
    { Absent, Null, Str(""), Str("  "), Str("Conforme"), Str(" Non conforme "),
      Str("Non applicable"), Str("Pas réponse"), Str("NA"), Str("Compliant") }

JustifFields == { AbsentText, Text(<<" ", "o", "k", " ">>) }

CitationEntries ==
    { NotAnObject }
    \cup { Entry(d, pg) : d \in { Absent, Str("policy.pdf") },
                          pg \in { Page(TRUE, TRUE, 3), Page(TRUE, TRUE, 0),
                                   Page(FALSE, FALSE, 0), Page(TRUE, FALSE, 0) } }

\* the values of the key "citations": none, a value that is no list, lists
CitationFields(max) ==
    { [t |-> "absent", items |-> <<>>], [t |-> "other", items |-> <<>>] }
    \cup { [t |-> "list", items |-> items] : items \in SeqsUpTo(CitationEntries, max) }

\* the text of a content that is a JSON object or a JSON list
T_object == <<"{", ".", ".", ".", "}">>
T_array == <<"[", "]">>

\* contents json.loads rejects
PlainTexts == { <<>>, <<"o", "k">>, <<" ", "o", "k", "\n">>, Rep("x", 800), Rep("x", 801) }

ChatAnswers(max) ==
    { ChatFail, ChatNone, ChatText(T_array, JsonArray) }
    \cup { ChatText(t, NotJson) : t \in PlainTexts }
    \cup { ChatText(T_object, JsonObject(st, ju, ci)) :
              st \in StatusFields, ju \in JustifFields, ci \in CitationFields(max) }

\* an index of one chunk
OneChunkIndex ==
    [present |-> TRUE, chunks |-> <<SampleChunk(1)>>, embeddings |-> << <<1, 0>> >>]

InitPropose ==
    /\ q_index \in { NoIndex, EmptyIndex, OneChunkIndex }
    /\ q_svc \in { SvcFail, SvcVec(<<1, 0>>) }
    /\ q_chat \in ChatAnswers(MaxCits)
    /\ q_out = Proposal("", <<>>, <<>>)
    /\ q_pc = "start"
    /\ ParseIdle
    /\ RetrieveIdle
    /\ ChunkIdle
    /\ SessionIdle
    /\ ScoreIdle
    /\ AssessIdle
    /\ PlanIdle
    /\ GapIdle
    /\ ExportIdle

\* one call of propose_anssi_answer
ProposeAnswer ==
    /\ q_pc = "start"
    /\ q_out' = propose_anssi_answer(q_index, q_svc, q_chat)
    /\ q_pc' = "done"
    /\ UNCHANGED <<q_index, q_svc, q_chat, pvars, rvars, cvars, svars, bvars, gvars, avars, nvars>>

NextPropose == ProposeAnswer

SpecPropose == InitPropose /\ [][NextPropose]_vars

(***************************************************************************)
(* Claims on the proposer                                                  *)
(***************************************************************************)
\* the retrieval of the call raised: the index has chunks and the embedding call failed
RetrievalRaised == q_index.present /\ Len(q_index.chunks) > 0 /\ ~q_svc.ok

\* the chat service returned a content
ChatAnswered == ~RetrievalRaised /\ q_chat.ok /\ q_chat.has_content

\* the content is not JSON, is not a JSON object, or has a citation entry
\* that is not an object or whose page number cannot be read
Unparseable ==
    \/ q_chat.loads.kind # "object"
    \/ /\ q_chat.loads.citations.t = "list"
       /\ \E i \in 1..Len(q_chat.loads.citations.items) :
             LET c == q_chat.loads.citations.items[i]
             IN ~c.isdict \/ (c.page.isdigit /\ ~c.page.int_ok)

\* C13: when the chat response cannot be parsed as the structured payload,
\* propose_anssi_answer does not raise and returns the status 'Non évalué',
\* the raw model text (its surrounding whitespace apart) as justification
\* and no citation.
C13_UnparseableGivesRawText ==
    (q_pc = "done" /\ ChatAnswered /\ Unparseable) =>
        /\ ~q_out.raised
        /\ q_out.status = "Non évalué"
        /\ q_out.justification = Strip(q_chat.text)
        /\ q_out.citations = <<>>

\* C13 as amended: when the chat response cannot be parsed as the structured
\* payload, propose_anssi_answer does not raise and returns the status
\* 'Non évalué', no citation, and as justification the first 800 characters
\* of the model text stripped of its leading and trailing whitespace.
C13_UnparseableGivesTextPrefix ==
    (q_pc = "done" /\ ChatAnswered /\ Unparseable) =>
        /\ ~q_out.raised
        /\ q_out.status = "Non évalué"
        /\ q_out.citations = <<>>
        /\ LET content == Strip(q_chat.text)
           IN q_out.justification =
                 IF Len(content) <= 800 THEN content ELSE SubSeq(content, 1, 800)

\* a content of more than 800 characters that is no JSON, answered by the fallback
C13_Witness ==
    /\ q_pc = "done" /\ ChatAnswered
    /\ q_chat.loads.kind = "invalid"
    /\ Len(q_chat.text) > 800
    /\ q_out.status = "Non évalué"

\* C14: a failure of the chat call, or of the query-embedding call before
\* it, does not raise out of propose_anssi_answer: it returns a result, of
\* status 'Non évalué'.
C14_ServiceFailureDegrades ==
    (q_pc = "done" /\ (RetrievalRaised \/ ~q_chat.ok)) =>
        /\ ~q_out.raised
        /\ q_out.status = "Non évalué"

\* C15: every status propose_anssi_answer returns is one of Conforme,
\* Partiellement conforme, Non conforme, Pas réponse, NA.
C15_ReturnedStatusInDomain ==
    (q_pc = "done" /\ ~q_out.raised) => q_out.status \in STATUS_DOMAIN

(***************************************************************************)
(* The reference measures and the scoring pass (src/core/anssi_hygiene.py, *)
(* src/app.py).  Two themes of ANSSI_SECTIONS stand for the ten.           *)
(***************************************************************************)
\* the theme names, their dash written "-"
T_II == "II - Connaître le SI"
T_VIII == "VIII - Maintenir le SI à jour"

ANSSI_SECTIONS ==
    << [theme |-> T_II,
        measures |-> << [id |-> "II-4", title |-> "Identifier données/serveurs sensibles & schéma réseau"],
                        [id |-> "II-5", title |-> "Inventaire des comptes privilégiés"],
                        [id |-> "II-6", title |-> "Procédures arrivée/départ/changement"],
                        [id |-> "II-7", title |-> "Autoriser la connexion aux seuls équipements maîtrisés"] >>],
       [theme |-> T_VIII,
        measures |-> << [id |-> "VIII-34", title |-> "Politique de mise à jour"],
                        [id |-> "VIII-35", title |-> "Anticiper fin de support & limiter adhérences"] >>] >>

\* flatten_measures(): the measures of the sections, in order, with their theme
RECURSIVE FlattenFrom(_)
FlattenFrom(k) ==
    IF k > Len(ANSSI_SECTIONS) THEN <<>>
    ELSE [i \in 1..Len(ANSSI_SECTIONS[k].measures) |->
             [theme |-> ANSSI_SECTIONS[k].theme,
              id |-> ANSSI_SECTIONS[k].measures[i].id,
              title |-> ANSSI_SECTIONS[k].measures[i].title]]
         \o FlattenFrom(k + 1)

flatten_measures == FlattenFrom(1)

MeasureIds == { flatten_measures[i].id : i \in 1..Len(flatten_measures) }

\* STATUSES of core/anssi_hygiene.py after the append of "NA" (src/app.py:288-292)
STATUSES == <<"Conforme", "Partiellement conforme", "Non conforme", "Pas réponse", "NA">>

InSTATUSES(x) == \E i \in 1..Len(STATUSES) : STATUSES[i] = x

\* a score: None, or a number kept in hundredths (1.00 is 100)
NoneScore == [defined |-> FALSE, x100 |-> 0]
Score(x100) == [defined |-> TRUE, x100 |-> x100]

\* STATUS_META with "Pas réponse" scored 0.00
STATUS_META_unanswered_zero(stt) ==
    CASE stt = "Conforme" -> [has |-> TRUE, score |-> Score(100), priority |-> "Low"]
      [] stt = "Partiellement conforme" -> [has |-> TRUE, score |-> Score(50), priority |-> "Medium"]
      [] stt = "Non conforme" -> [has |-> TRUE, score |-> Score(0), priority |-> "High"]
      [] stt = "Pas réponse" -> [has |-> TRUE, score |-> Score(0), priority |-> "Medium"]
      [] stt = "NA" -> [has |-> TRUE, score |-> NoneScore, priority |-> "N/A"]
      [] OTHER -> [has |-> FALSE, score |-> NoneScore, priority |-> ""]

\* STATUS_META: has tells that the status is a key of the dict
STATUS_META(stt) ==
    CASE stt = "Conforme" -> [has |-> TRUE, score |-> Score(100), priority |-> "Low"]
      [] stt = "Partiellement conforme" -> [has |-> TRUE, score |-> Score(50), priority |-> "Medium"]
      [] stt = "Non conforme" -> [has |-> TRUE, score |-> Score(0), priority |-> "High"]
      [] stt = "Pas réponse" -> [has |-> TRUE, score |-> Score(25), priority |-> "Medium"]
      [] stt = "NA" -> [has |-> TRUE, score |-> NoneScore, priority |-> "N/A"]
      [] OTHER -> [has |-> FALSE, score |-> NoneScore, priority |-> ""]

\* dict.get(key, default)
MapGet(m, key, default) == IF key \in DOMAIN m THEN m[key] ELSE default

\* sample justifications: one wrapped in code fences (written ''' here), one
\* that is an empty JSON object, and the reading of the first
J_fenced == <<"'","'","'","o","k","'","'","'">>
J_object == <<"{","}">>
J_ok == <<"o","k">>

\* ensure_plain_text on the texts of the model: the code fences are removed,
\* a JSON object is rewritten as the text of its fields (none here), any
\* other text is stripped
ensure_plain_text(x) ==
    CASE x = J_fenced -> J_ok
      [] x = J_object -> <<>>
      [] OTHER -> Strip(x)

\* the row of lines 311-320 for one measure; the score column is
\* int(round(score*100)) or None
RowOf(m, status_map, justifs_map) ==
    LET stt == MapGet(status_map, m.id, "Pas réponse")
        meta == IF STATUS_META(stt).has THEN STATUS_META(stt) ELSE STATUS_META("Pas réponse")
    IN [Theme |-> m.theme, ID |-> m.id, Mesure |-> m.title, Statut |-> stt,
        Score |-> meta.score, Priorite |-> meta.priority,
        Justification |-> ensure_plain_text(MapGet(justifs_map, m.id, <<>>))]

\* the place of a row in the order of sort_values(["Thème", "ID"]): the
\* themes and the ids of the sections above are in string order already
RowRank(r) ==
    CHOOSE i \in 1..Len(flatten_measures) : flatten_measures[i].id = r.ID

\* a sequence of rows sorted by RowRank
RECURSIVE SortRows(_)
SortRows(rows) ==
    IF Len(rows) = 0 THEN <<>>
    ELSE LET first == CHOOSE i \in 1..Len(rows) :
                          \A j \in 1..Len(rows) : RowRank(rows[i]) <= RowRank(rows[j])
             others == [j \in 1..(Len(rows) - 1) |-> IF j < first THEN rows[j] ELSE rows[j + 1]]
         IN <<rows[first]>> \o SortRows(others)

_anssi_build_dataframe(measures, status_map, justifs_map) ==
    SortRows([i \in 1..Len(measures) |-> RowOf(measures[i], status_map, justifs_map)])

\* sum of the score column of a sequence of rows
RECURSIVE SumScores(_)
SumScores(rows) ==
    IF Len(rows) = 0 THEN 0 ELSE rows[1].Score.x100 + SumScores(Tail(rows))

\* round(1) of the mean a / n, in tenths: the nearest tenth, the even one at a tie
RoundTenths(a, n) ==
    LET q == (10 * a) \div n
        r2 == 2 * ((10 * a) % n)
    IN IF r2 < n THEN q
       ELSE IF r2 > n THEN q + 1
       ELSE IF q % 2 = 0 THEN q ELSE q + 1

\* the theme table in which the rows without score count as 0
_anssi_theme_maturity_na_counted(df) ==
    LET HasScore(r) == r.Score.defined
        use == SelectSeq(df, HasScore)
        themes == [k \in 1..Len(ANSSI_SECTIONS) |-> ANSSI_SECTIONS[k].theme]
        Present(t) == \E i \in 1..Len(use) : use[i].Theme = t
        groups == SelectSeq(themes, Present)
        MeanOf(t) ==
            LET InTheme(r) == r.Theme = t
            IN RoundTenths(SumScores(SelectSeq(use, InTheme)), Len(SelectSeq(df, InTheme)))
    IN [k \in 1..Len(groups) |-> [Theme |-> groups[k], Maturite |-> MeanOf(groups[k])]]

\* _anssi_theme_maturity(df), before its last sort: the groups in theme order,
\* the mean in tenths of a percent point
ThemeMeans(df) ==
    LET HasScore(r) == r.Score.defined
        use == SelectSeq(df, HasScore)
        themes == [k \in 1..Len(ANSSI_SECTIONS) |-> ANSSI_SECTIONS[k].theme]
        Present(t) == \E i \in 1..Len(use) : use[i].Theme = t
        groups == SelectSeq(themes, Present)
        MeanOf(t) ==
            LET InTheme(r) == r.Theme = t
                mine == SelectSeq(use, InTheme)
            IN RoundTenths(SumScores(mine), Len(mine))
    IN [k \in 1..Len(groups) |-> [Theme |-> groups[k], Maturite |-> MeanOf(groups[k])]]

\* sort_values("Maturité moyenne (%)", ascending=False) of a theme table
RECURSIVE SortByMaturity(_)
SortByMaturity(t) ==
    IF Len(t) = 0 THEN <<>>
    ELSE LET first == CHOOSE i \in 1..Len(t) :
                          /\ \A j \in 1..Len(t) : t[i].Maturite >= t[j].Maturite
                          /\ \A j \in 1..(i - 1) : t[j].Maturite < t[i].Maturite
             others == [j \in 1..(Len(t) - 1) |-> IF j < first THEN t[j] ELSE t[j + 1]]
         IN <<t[first]>> \o SortByMaturity(others)

_anssi_theme_maturity(df) == SortByMaturity(ThemeMeans(df))

\* the global maturity in which the rows without score count as 0
overall_na_counted(df) ==
    LET HasScore(r) == r.Score.defined
        valid == SelectSeq(df, HasScore)
    IN IF Len(valid) = 0 THEN 0 ELSE RoundTenths(SumScores(valid), Len(df))

\* the global maturity of _save_anssi_report_docx (lines 427-428), in tenths
\* of a percent point: round(valid.mean(), 1), or 0.0 without a score
overall(df) ==
    LET HasScore(r) == r.Score.defined
        valid == SelectSeq(df, HasScore)
    IN IF Len(valid) = 0 THEN 0 ELSE RoundTenths(SumScores(valid), Len(valid))

(***************************************************************************)
(* The assessments given to the scoring pass: status maps of up to         *)
(* MaxAnswered entries.                                                    *)
(***************************************************************************)
MaxAnswered == 6

StatusSet == { STATUSES[i] : i \in 1..Len(STATUSES) }

\* the status maps of up to n entries
StatusMaps(n) ==
    UNION { [S -> StatusSet] : S \in { T \in SUBSET MeasureIds : Cardinality(T) <= n } }

JustifMaps ==
    { EmptyMap,
      [k \in {"II-4", "VIII-34"} |->
          IF k = "II-4" THEN J_fenced ELSE J_object] }

InitScore ==
    /\ g_status \in StatusMaps(MaxAnswered)
    /\ g_justifs \in JustifMaps
    /\ g_out = NoScore
    /\ g_pc = "start"
    /\ ParseIdle
    /\ RetrieveIdle
    /\ ChunkIdle
    /\ SessionIdle
    /\ ProposeIdle
    /\ AssessIdle
    /\ PlanIdle
    /\ GapIdle
    /\ ExportIdle

\* the scoring of the results stage (src/app.py:893-894) and of its report
ScorePass ==
    /\ g_pc = "start"
    /\ LET df == _anssi_build_dataframe(flatten_measures, g_status, g_justifs)
       IN g_out' = [rows |-> df, themes |-> _anssi_theme_maturity(df), overall |-> overall(df)]
    /\ g_pc' = "done"
    /\ UNCHANGED <<g_status, g_justifs, pvars, rvars, cvars, svars, bvars, qvars, avars, nvars>>

NextScore == ScorePass

SpecScore == InitScore /\ [][NextScore]_vars

(***************************************************************************)
(* Claims on the scoring                                                   *)
(***************************************************************************)
\* C19: in every result row the score and the priority are given by the
\* row's status: Conforme 100% / Low, Partiellement conforme 50% / Medium,
\* Non conforme 0% / High, Pas réponse 25% / Medium, NA no score / N/A.
C19_ScoreAndPriorityByStatus ==
    g_pc = "done" =>
        \A i \in 1..Len(g_out.rows) :
            LET r == g_out.rows[i]
            IN /\ r.Statut = "Conforme" =>
                     r.Score.defined /\ r.Score.x100 = 100 /\ r.Priorite = "Low"
               /\ r.Statut = "Partiellement conforme" =>
                     r.Score.defined /\ r.Score.x100 = 50 /\ r.Priorite = "Medium"
               /\ r.Statut = "Non conforme" =>
                     r.Score.defined /\ r.Score.x100 = 0 /\ r.Priorite = "High"
               /\ r.Statut = "Pas réponse" =>
                     r.Score.defined /\ r.Score.x100 = 25 /\ r.Priorite = "Medium"
               /\ r.Statut = "NA" => ~r.Score.defined /\ r.Priorite = "N/A"

\* result rows of all five statuses
C19_Witness ==
    /\ g_pc = "done"
    /\ \A x \in STATUS_DOMAIN : \E i \in 1..Len(g_out.rows) : g_out.rows[i].Statut = x

\* the scored statuses of a theme in a status map, those without entry read
\* as 'Pas réponse'
ScoredOf(theme) ==
    { i \in 1..Len(flatten_measures) :
        /\ flatten_measures[i].theme = theme
        /\ MapGet(g_status, flatten_measures[i].id, "Pas réponse") # "NA" }

\* the score in percent the table of C19 gives a status
PercentOf(stt) ==
    CASE stt = "Conforme" -> 100
      [] stt = "Partiellement conforme" -> 50
      [] stt = "Non conforme" -> 0
      [] OTHER -> 25

RECURSIVE SumPercent(_)
SumPercent(S) ==
    IF S = {} THEN 0
    ELSE LET i == CHOOSE x \in S : TRUE
         IN PercentOf(MapGet(g_status, flatten_measures[i].id, "Pas réponse"))
            + SumPercent(S \ {i})

Abs(x) == IF x < 0 THEN -x ELSE x

\* C20: a theme has a maturity row exactly when one of its rows has a score,
\* and its maturity is the mean of the defined scores of its rows, NA rows
\* counted in neither sum nor denominator, to the nearest tenth of a point.
C20_ThemeMaturityIsMeanOfDefined ==
    g_pc = "done" =>
        /\ \A k \in 1..Len(g_out.themes) :
              \E j \in 1..Len(ANSSI_SECTIONS) : g_out.themes[k].Theme = ANSSI_SECTIONS[j].theme
        /\ \A j \in 1..Len(ANSSI_SECTIONS) :
              LET theme == ANSSI_SECTIONS[j].theme
                  scored == ScoredOf(theme)
                  mine == { k \in 1..Len(g_out.themes) : g_out.themes[k].Theme = theme }
              IN IF scored = {} THEN mine = {}
                 ELSE /\ Cardinality(mine) = 1
                      /\ \A k \in mine :
                            2 * Abs(g_out.themes[k].Maturite * Cardinality(scored)
                                    - 10 * SumPercent(scored)) <= Cardinality(scored)

\* theme II answered Conforme, Non conforme, NA, Pas réponse has maturity
\* 41.7, and theme VIII, all NA, has no maturity row
C20_Witness ==
    /\ g_pc = "done"
    /\ g_status = [k \in {"II-4", "II-5", "II-6", "VIII-34", "VIII-35"} |->
                      CASE k = "II-4" -> "Conforme"
                        [] k = "II-5" -> "Non conforme"
                        [] OTHER -> "NA"]
    /\ g_out.themes = << [Theme |-> T_II, Maturite |-> 417] >>

\* the measures whose status has a score
AllScored ==
    { i \in 1..Len(flatten_measures) :
         MapGet(g_status, flatten_measures[i].id, "Pas réponse") # "NA" }

\* C21: for every assessment map the scoring pass gives one row per
\* reference measure, a theme table that is empty exactly when no row has a
\* score, and a global maturity that is the mean of the defined scores to
\* the nearest tenth of a point, 0 when no row has a score.
C21_ScoringIsTotal ==
    g_pc = "done" =>
        /\ Len(g_out.rows) = Len(flatten_measures)
        /\ \A i \in 1..Len(flatten_measures) :
              Cardinality({ k \in 1..Len(g_out.rows) :
                               g_out.rows[k].ID = flatten_measures[i].id }) = 1
        /\ (Len(g_out.themes) = 0) <=> (AllScored = {})
        /\ IF AllScored = {} THEN g_out.overall = 0
           ELSE 2 * Abs(g_out.overall * Cardinality(AllScored) - 10 * SumPercent(AllScored))
                   <= Cardinality(AllScored)

\* every measure is NA: six rows, no theme row, global maturity 0
C21_Witness ==
    /\ g_pc = "done"
    /\ DOMAIN g_status = MeasureIds
    /\ \A mid \in MeasureIds : g_status[mid] = "NA"
    /\ Len(g_out.rows) = 6
    /\ g_out.themes = <<>>
    /\ g_out.overall = 0

\* a partly filled map: Conforme, Non conforme and NA in theme II, the
\* other three measures unanswered, global maturity (100 + 0 + 3 * 25) / 5 = 35
C21_PartlyFilled ==
    /\ g_pc = "done"
    /\ g_status = [k \in {"II-4", "II-5", "II-6"} |->
                      CASE k = "II-4" -> "Conforme"
                        [] k = "II-5" -> "Non conforme"
                        [] OTHER -> "NA"]
    /\ g_out.overall = 350

(***************************************************************************)
(* The ANSSI questionnaire session (src/app.py, render_anssi_hygiene and   *)
(* the router).  An action is one click or edit of the user together with  *)
(* the script run Streamlit starts for it: a callback given by on_click    *)
(* runs first, then the page of the route is drawn; the code under an      *)
(* "if st.button" runs while the page is drawn, and st.rerun() draws it    *)
(* again.  The questions stage writes the value of the status selector     *)
(* and of the text area of every measure it shows back into the maps.      *)
(***************************************************************************)
\* the route of the questionnaire (the ISO 27001 page reads and writes none
\* of the state below and is left out)
ANSSI == "anssi_hygiene"

\* the measures the session shows: the first measure of each theme
SessionMeasures ==
    LET IsFirst(m) == \E k \in 1..Len(ANSSI_SECTIONS) : ANSSI_SECTIONS[k].measures[1].id = m.id
    IN SelectSeq(flatten_measures, IsFirst)

MeasureIdsOf(measures) == { measures[k].id : k \in 1..Len(measures) }

\* the ids of the measures ANSSI_SECTIONS[theme] lists (line 776)
ThemeIds(theme) ==
    { SessionMeasures[k].id : k \in { j \in 1..Len(SessionMeasures) : SessionMeasures[j].theme = theme } }

\* d[key] = value
Put(d, key, value) == [x \in DOMAIN d \cup {key} |-> IF x = key THEN value ELSE d[x]]

\* the text a user types, and a plain answer of the chat service
J_manual == <<"m">>
T_statut == <<"S","t","a","t","u","t",":"," ","C","o","n","f","o","r","m","e">>

\* the citations line of lines 678-679 and 824-825
T_citations == <<"\n","\n","C","i","t","a","t","i","o","n","s",":"," ">>
CitationLabel(c) ==
    CASE c = [doc |-> "policy.pdf", page |-> 3] ->
            <<"p","o","l","i","c","y",".","p","d","f"," ","p",".","3">>
      [] OTHER -> <<"?">>
RECURSIVE JoinCitations(_)
JoinCitations(cits) ==
    IF Len(cits) = 0 THEN <<>>
    ELSE IF Len(cits) = 1 THEN CitationLabel(cits[1])
    ELSE CitationLabel(cits[1]) \o <<";", " ">> \o JoinCitations(Tail(cits))
WithCitations(justif, cits) ==
    IF Len(cits) = 0 THEN justif ELSE justif \o T_citations \o JoinCitations(cits)

\* the page is the questions stage
Shown(r, s) == r = ANSSI /\ s = "questions"

\* the values the widgets of the page hold: those of the measures drawn by
\* the last run, which wrote them into the map
HeldIn(theme, d) == [x \in ThemeIds(theme) |-> d[x]]
Held(d) == HeldIn(anssi_theme_radio, d)

\* st.selectbox of lines 787-793: a widget the last run drew keeps its value
\* when the build identifies it by its key alone, or when its index is the
\* one it had (the stored status of the last run stands for it); otherwise
\* the widget is created at index
selectbox(mid, w, status_map) ==
    LET current == MapGet(status_map, mid, "Pas réponse")
        index == IF InSTATUSES(current) THEN current ELSE "Pas réponse"
    IN IF mid \in DOMAIN w /\ (widget_keyed \/ anssi_status[mid] = index)
       THEN w[mid] ELSE index

\* st.text_area of lines 798-804, the same way with its value
text_area(mid, w, justifs_map) ==
    LET cur_just == MapGet(justifs_map, mid, <<>>)
    IN IF mid \in DOMAIN w /\ (widget_keyed \/ anssi_justifs[mid] = cur_just)
       THEN w[mid] ELSE cur_just

\* the write-back of a questions pass that writes the maps of its theme anew
WriteBack_rebuild(theme, w_st, w_ju, status_map, justifs_map) ==
    [status |-> [x \in ThemeIds(theme) |-> selectbox(x, w_st, status_map)],
     justifs |-> [x \in ThemeIds(theme) |-> text_area(x, w_ju, justifs_map)]]

\* lines 776-805 of a questions pass: every measure of the theme gets the
\* value of its selector and of its text area
WriteBack(theme, w_st, w_ju, status_map, justifs_map) ==
    [status |-> [x \in DOMAIN status_map \cup ThemeIds(theme) |->
                    IF x \in ThemeIds(theme) THEN selectbox(x, w_st, status_map)
                    ELSE status_map[x]],
     justifs |-> [x \in DOMAIN justifs_map \cup ThemeIds(theme) |->
                    IF x \in ThemeIds(theme) THEN text_area(x, w_ju, justifs_map)
                    ELSE justifs_map[x]]]

\* the run that draws the page of route r at stage s: picked is the theme
\* the radio holds ("" when the last run did not draw it, and it shows the
\* first theme), w_st and w_ju the values the widgets hold
Render(r, s, picked, w_st, w_ju, status_map, justifs_map, last) ==
    LET theme == IF picked = "" THEN ANSSI_SECTIONS[1].theme ELSE picked
        maps == IF Shown(r, s) THEN WriteBack(theme, w_st, w_ju, status_map, justifs_map)
                ELSE [status |-> status_map, justifs |-> justifs_map]
    IN /\ route' = r
       /\ anssi_stage' = s
       /\ anssi_theme_radio' = IF Shown(r, s) THEN theme ELSE ""
       /\ anssi_status' = maps.status
       /\ anssi_justifs' = maps.justifs
       /\ a_last' = last

\* a run that is stopped by an exception before the page is drawn
NoRender(status_map, justifs_map) ==
    /\ anssi_status' = status_map
    /\ anssi_justifs' = justifs_map
    /\ a_last' = "raised"
    /\ UNCHANGED <<route, anssi_stage, anssi_theme_radio>>

\* what an operation of the questionnaire leaves alone
AssessFrame ==
    UNCHANGED <<pvars, rvars, cvars, svars, bvars, qvars, gvars, nvars, widget_keyed>>

\* the condition of lines 665 and 817: an index with chunks
HasRagIndex == rag_available /\ anssi_index.present /\ Len(anssi_index.chunks) > 0

RECURSIVE JoinWith(_, _)
JoinWith(texts, sep) ==
    IF Len(texts) = 0 THEN <<>>
    ELSE IF Len(texts) = 1 THEN texts[1]
    ELSE texts[1] \o sep \o JoinWith(Tail(texts), sep)

\* _extract_text_from_pdf_bytes and _extract_text_from_docx_bytes (lines
\* 127-139), and the decoding of a TXT file
ExtractText(f) ==
    LET NonEmpty(t) == Len(t) > 0
    IN CASE LowerExt(f.name.ext) = ".pdf" ->
               IF f.corrupt THEN <<>> ELSE JoinWith(f.parts, <<"\n">>)
         [] LowerExt(f.name.ext) = ".docx" ->
               IF f.corrupt THEN <<>> ELSE JoinWith(SelectSeq(f.parts, NonEmpty), <<"\n">>)
         [] OTHER -> IF Len(f.parts) = 0 THEN <<>> ELSE Decode(f.parts[1])

\* get_uploaded_docs_text (lines 193-209): the texts of the PDF, DOCX and
\* TXT documents, joined and truncated
get_uploaded_docs_text(docs, truncate) ==
    LET Read(f) == LowerExt(f.name.ext) \in {".pdf", ".docx", ".txt"}
        kept == SelectSeq(docs, Read)
    IN Prefix(JoinWith([k \in 1..Len(kept) |-> ExtractText(kept[k])], <<"\n", "\n">>), truncate)

(***************************************************************************)
(* The answers the chat service gives during a session.                    *)
(***************************************************************************)
\* the call raises; a plain text, which the proposer returns with the status
\* "Non évalué"; an object with a status and a citation
SessionChats ==
    { ChatFail,
      ChatText(T_statut, NotJson),
      ChatText(T_object, JsonObject(Str("Conforme"), Text(T_statut),
                                    [t |-> "list",
                                     items |-> << Entry(Str("policy.pdf"), Page(TRUE, TRUE, 3)) >>])) }

\* the answers that are plain text
PlainChats == { c \in SessionChats : c.loads.kind = "invalid" }

\* an item of the JSON list the batch prompt asks for: an object with the
\* fields id, status and justification, or another JSON value
Item(id, status, justification) ==
    [isdict |-> TRUE, id |-> id, status |-> status, justification |-> justification]
NotAnItem == [isdict |-> FALSE, id |-> Absent, status |-> Absent, justification |-> AbsentText]

\* what the batch call gives: ok is FALSE when the call or json.loads
\* raised; kind is "list" for a JSON list, "number" for a JSON number
BatchFail == [ok |-> FALSE, kind |-> "list", items |-> <<>>]
BatchList(items) == [ok |-> TRUE, kind |-> "list", items |-> items]
BatchNumber == [ok |-> TRUE, kind |-> "number", items |-> <<>>]

I_conforme == Item(Str("II-4"), Str("Conforme"), Text(T_statut))
I_unknown_status == Item(Str("VIII-34"), Str("Non évalué"), AbsentText)
I_no_id == Item(Absent, Str("Conforme"), Text(T_statut))
I_foreign == Item(Str("Z-99"), Str("Non conforme"), AbsentText)

BatchAnswers ==
    { BatchFail, BatchNumber,
      BatchList(<<I_conforme, I_unknown_status>>),
      BatchList(<<I_no_id, I_foreign>>),
      BatchList(<<I_conforme, NotAnItem, I_unknown_status>>) }

(***************************************************************************)
(* _anssi_autofill_from_global (lines 656-749)                             *)
(***************************************************************************)
Maps(status_map, justifs_map) == [status |-> status_map, justifs |-> justifs_map]

\* the body of the loop of lines 667-685 for one measure that stores the
\* status of the proposal as it is
AutofillMeasure_unfiltered(maps, mid, res) ==
    IF res.raised
    THEN Maps(Put(maps.status, mid, MapGet(maps.status, mid, "Pas réponse")), maps.justifs)
    ELSE Maps(Put(maps.status, mid, res.status),
              Put(maps.justifs, mid,
                  WithCitations(ensure_plain_text(res.justification), res.citations)))

\* the body of the loop for one measure that answers a proposal that
\* raises with "Pas réponse"
AutofillMeasure_reset(maps, mid, res) ==
    IF res.raised
    THEN Maps(Put(maps.status, mid, "Pas réponse"), maps.justifs)
    ELSE LET status == IF InSTATUSES(res.status) THEN res.status ELSE "Pas réponse"
         IN Maps(Put(maps.status, mid, status),
                 Put(maps.justifs, mid,
                     WithCitations(ensure_plain_text(res.justification), res.citations)))

\* the body of the loop of lines 667-685 for one measure: res is what
\* propose_anssi_answer gave
AutofillMeasure(maps, mid, res) ==
    IF res.raised
    THEN Maps(Put(maps.status, mid, MapGet(maps.status, mid, "Pas réponse")), maps.justifs)
    ELSE LET status == IF InSTATUSES(res.status) THEN res.status ELSE "Pas réponse"
         IN Maps(Put(maps.status, mid, status),
                 Put(maps.justifs, mid,
                     WithCitations(ensure_plain_text(res.justification), res.citations)))

\* the loop of lines 667-685: chats[k] is the answer of the chat service
\* for the k-th measure
RECURSIVE AutofillRag(_, _, _)
AutofillRag(maps, k, chats) ==
    IF k > Len(SessionMeasures) THEN maps
    ELSE AutofillRag(
            AutofillMeasure(maps, SessionMeasures[k].id,
                            propose_anssi_answer(anssi_index, SvcVec(<<1, 0>>), chats[k])),
            k + 1, chats)

\* the loop of lines 738-747 over a JSON list: an item without .get raises
\* and the entries written before it stay
RECURSIVE AutofillItems(_, _)
AutofillItems(maps, items) ==
    IF Len(items) = 0 THEN [raised |-> FALSE, maps |-> maps]
    ELSE LET item == items[1]
             mid == item.id
             status == IF item.status.t = "str" /\ InSTATUSES(item.status.s)
                       THEN item.status.s ELSE "Pas réponse"
             justif == ensure_plain_text(TextOf(item.justification))
         IN IF ~item.isdict THEN [raised |-> TRUE, maps |-> maps]
            ELSE IF mid.t # "str" \/ mid.s = "" THEN AutofillItems(maps, Tail(items))
            ELSE AutofillItems(Maps(Put(maps.status, mid.s, status),
                                    Put(maps.justifs, mid.s, justif)),
                               Tail(items))

\* lines 688-749: the batch fallback on the text of the documents
AutofillBatch(maps, data) ==
    IF ~data.ok THEN [raised |-> FALSE, applied |-> FALSE, maps |-> maps]
    ELSE IF data.kind # "list" THEN [raised |-> TRUE, applied |-> FALSE, maps |-> maps]
    ELSE LET res == AutofillItems(maps, data.items)
         IN [raised |-> res.raised, applied |-> ~res.raised, maps |-> res.maps]

(***************************************************************************)
(* "Proposer avec l'IA" (lines 809-851)                                    *)
(***************************************************************************)
\* lines 817-826: the branch with an index
ProposeRag(maps, mid, res) ==
    Maps(IF InSTATUSES(res.status) THEN Put(maps.status, mid, res.status) ELSE maps.status,
         Put(maps.justifs, mid,
             WithCitations(ensure_plain_text(res.justification), res.citations)))

\* lines 827-847: the branch on the text of the documents; text is the
\* content of the answer, "" for None
ProposePlain(maps, mid, text) ==
    LET content == ensure_plain_text(Strip(text))
        parsed == parse_status_from_text(content)
        detected == IF parsed = None THEN "Pas réponse" ELSE parsed
    IN Maps(IF InSTATUSES(detected) THEN Put(maps.status, mid, detected) ELSE maps.status,
            Put(maps.justifs, mid, content))

(***************************************************************************)
(* The operations of the session.                                          *)
(***************************************************************************)
\* a light document for the questionnaire session
F_memo ==
    [name |-> [stem |-> "memo", ext |-> ".txt"], corrupt |-> FALSE, parts |-> << <<"a", "b">> >>]

InitAssess ==
    /\ has_key \in BOOLEAN
    /\ rag_available = TRUE
    /\ widget_keyed \in BOOLEAN
    /\ file_pool = { F_memo }
    /\ global_uploader = {}
    /\ uploaded_docs = <<>>
    /\ anssi_index = NoIndex
    /\ route = "home"
    /\ anssi_stage = "intro"
    /\ anssi_theme_radio = ""
    /\ anssi_status = EmptyMap
    /\ anssi_justifs = EmptyMap
    /\ a_last = "none"
    /\ BuildIdle
    /\ ParseIdle
    /\ RetrieveIdle
    /\ ChunkIdle
    /\ ProposeIdle
    /\ ScoreIdle
    /\ PlanIdle
    /\ GapIdle
    /\ ExportIdle

\* the run of a click that changes route or stage and leaves the maps to
\* the page it draws
Show(r, s) ==
    /\ b_pc = "idle"
    /\ Render(r, s, anssi_theme_radio, Held(anssi_status), Held(anssi_justifs),
              anssi_status, anssi_justifs, "shown")
    /\ AssessFrame

\* the buttons of render_home (lines 581, 585)
GoAnssi == route = "home" /\ Show(ANSSI, anssi_stage)

\* a home button that also starts the questionnaire over
GoHome_to_intro == route # "home" /\ Show("home", "intro")

\* the home buttons of the stages (lines 651, 762, 857, 882, 939)
GoHome == route # "home" /\ Show("home", anssi_stage)

\* "Enregistrer & continuer" (lines 648-650)
IntroSave == route = ANSSI /\ anssi_stage = "intro" /\ Show(ANSSI, "questions")

\* "Terminer le questionnaire" (lines 859-861), after the questions were
\* drawn once more
FinishQuestions == Shown(route, anssi_stage) /\ Show(ANSSI, "review")

\* "Retour au questionnaire" and "Valider" of the review (lines 881, 883-885)
ReviewBack == route = ANSSI /\ anssi_stage = "review" /\ Show(ANSSI, "questions")
ReviewValidate == route = ANSSI /\ anssi_stage = "review" /\ Show(ANSSI, "results")

\* "Revenir au questionnaire" of the results (line 938)
ResultsBack == route = ANSSI /\ anssi_stage = "results" /\ Show(ANSSI, "questions")

\* the user picks a theme in the radio (line 764)
PickTheme ==
    /\ Shown(route, anssi_stage)
    /\ b_pc = "idle"
    /\ \E k \in 1..Len(ANSSI_SECTIONS) :
          /\ ANSSI_SECTIONS[k].theme # anssi_theme_radio
          /\ Render(route, anssi_stage, ANSSI_SECTIONS[k].theme,
                    Held(anssi_status), Held(anssi_justifs),
                    anssi_status, anssi_justifs, "shown")
    /\ AssessFrame

\* the statuses the user of the model picks
StatusEdits == { "Non conforme", "NA" }

\* the user picks a status in the selector of a measure (lines 787-794)
EditStatus ==
    /\ Shown(route, anssi_stage)
    /\ b_pc = "idle"
    /\ \E mid \in ThemeIds(anssi_theme_radio), v \in StatusEdits :
          /\ v # anssi_status[mid]
          /\ Render(route, anssi_stage, anssi_theme_radio,
                    Put(Held(anssi_status), mid, v), Held(anssi_justifs),
                    anssi_status, anssi_justifs, "shown")
    /\ AssessFrame

\* the user types a justification in the text area of a measure (lines 798-805)
EditJustif ==
    /\ Shown(route, anssi_stage)
    /\ b_pc = "idle"
    /\ \E mid \in ThemeIds(anssi_theme_radio) :
          /\ J_manual # anssi_justifs[mid]
          /\ Render(route, anssi_stage, anssi_theme_radio,
                    Held(anssi_status), Put(Held(anssi_justifs), mid, J_manual),
                    anssi_status, anssi_justifs, "shown")
    /\ AssessFrame

\* "Préremplir automatiquement" (line 760): the callback, then the page
Autofill ==
    /\ Shown(route, anssi_stage)
    /\ b_pc = "idle"
    /\ LET maps == Maps(anssi_status, anssi_justifs)
           Draw(m, last) ==
               Render(route, anssi_stage, anssi_theme_radio,
                      Held(anssi_status), Held(anssi_justifs), m.status, m.justifs, last)
       IN IF ~has_key THEN Draw(maps, "declined")
          ELSE IF HasRagIndex
          THEN \E chats \in [1..Len(SessionMeasures) -> SessionChats] :
                  Draw(AutofillRag(maps, 1, chats), "applied")
          ELSE IF Len(get_uploaded_docs_text(uploaded_docs, 16000)) = 0
          THEN Draw(maps, "declined")
          ELSE \E data \in BatchAnswers :
                  LET res == AutofillBatch(maps, data)
                  IN IF res.raised THEN NoRender(res.maps.status, res.maps.justifs)
                     ELSE Draw(res.maps, IF res.applied THEN "applied" ELSE "declined")
    /\ AssessFrame

\* the branch of "Proposer avec l'IA" for measure mid (lines 809-851), run
\* after the page was drawn up to the button: the maps it leaves, and
\* whether it reports the proposal as applied
ProposeBranch(mid, chat) ==
    LET drawn == WriteBack(anssi_theme_radio, Held(anssi_status), Held(anssi_justifs),
                           anssi_status, anssi_justifs)
        res == propose_anssi_answer(anssi_index, SvcVec(<<1, 0>>), chat)
    IN IF ~has_key THEN [applied |-> FALSE, maps |-> drawn]
       ELSE IF HasRagIndex
       THEN IF res.raised THEN [applied |-> FALSE, maps |-> drawn]
            ELSE [applied |-> TRUE, maps |-> ProposeRag(drawn, mid, res)]
       ELSE IF ~chat.ok THEN [applied |-> FALSE, maps |-> drawn]
            ELSE [applied |-> TRUE, maps |-> ProposePlain(drawn, mid, chat.text)]

\* the click on the button of measure mid when the chat service answers
\* chat: the page is drawn up to the button, the branch runs, and st.rerun()
\* draws the page again
ProposeStep(mid, chat) ==
    /\ Shown(route, anssi_stage)
    /\ b_pc = "idle"
    /\ mid \in ThemeIds(anssi_theme_radio)
    /\ (has_key /\ ~HasRagIndex) => chat \in PlainChats
    /\ LET drawn == WriteBack(anssi_theme_radio, Held(anssi_status), Held(anssi_justifs),
                              anssi_status, anssi_justifs)
           branch == ProposeBranch(mid, chat)
       IN Render(route, anssi_stage, anssi_theme_radio,
                 HeldIn(anssi_theme_radio, drawn.status),
                 HeldIn(anssi_theme_radio, drawn.justifs),
                 branch.maps.status, branch.maps.justifs,
                 IF branch.applied THEN "applied" ELSE "declined")
    /\ AssessFrame

\* "Proposer avec l'IA" of a measure of the theme
ProposeMeasure ==
    \E mid \in MeasureIdsOf(SessionMeasures), chat \in SessionChats : ProposeStep(mid, chat)

\* the rows of all the batches of lines 89-93
RECURSIVE EmbedAll(_, _)
EmbedAll(chunks, i) ==
    IF i >= Len(chunks) THEN <<>>
    ELSE BatchEmbeddings(chunks, i) \o EmbedAll(chunks, i + BatchSize)

\* _index_docs (lines 612-631) in one step: ok tells that the embedding
\* calls of build_vector_index answer
index_docs(docs, index, ok) ==
    IF Len(docs) = 0 \/ ~rag_available THEN [raised |-> FALSE, index |-> index]
    ELSE IF ~has_key THEN [raised |-> TRUE, index |-> IndexAfterRaise(index, <<>>, <<>>)]
    ELSE LET res == _chunk_sources(docs)
         IN IF res.raised
            THEN [raised |-> TRUE, index |-> IndexAfterRaise(index, <<>>, <<>>)]
            ELSE IF Len(res.list) = 0 THEN [raised |-> FALSE, index |-> EmptyIndex]
            ELSE IF ok
            THEN [raised |-> FALSE, index |-> BuiltIndex(res.list, EmbedAll(res.list, 0))]
            ELSE [raised |-> TRUE, index |-> IndexAfterRaise(index, res.list, <<>>)]

\* the index buttons of the intro and of the questions (lines 653, 761):
\* the callback, then the page
AssessIndexDocs ==
    /\ route = ANSSI
    /\ anssi_stage \in {"intro", "questions"}
    /\ b_pc = "idle"
    /\ \E ok \in BOOLEAN :
          LET res == index_docs(uploaded_docs, anssi_index, ok)
          IN /\ anssi_index' = res.index
             /\ IF res.raised THEN NoRender(anssi_status, anssi_justifs)
                ELSE Render(route, anssi_stage, anssi_theme_radio,
                            Held(anssi_status), Held(anssi_justifs),
                            anssi_status, anssi_justifs, "shown")
    /\ UNCHANGED <<has_key, rag_available, file_pool, global_uploader, uploaded_docs,
                   pvars, rvars, cvars, bvars, qvars, gvars, nvars, widget_keyed>>

NextAssess ==
    \/ GoAnssi
    \/ GoHome
    \/ IntroSave
    \/ FinishQuestions
    \/ ReviewBack
    \/ ReviewValidate
    \/ ResultsBack
    \/ PickTheme
    \/ EditStatus
    \/ EditJustif
    \/ Autofill
    \/ ProposeMeasure
    \/ UploaderAdd
    \/ UploaderClear
    \/ Retirer
    \/ AssessIndexDocs

SpecAssess == InitAssess /\ [][NextAssess]_vars

(***************************************************************************)
(* Claims on the questionnaire session                                     *)
(***************************************************************************)
\* C16: after any sequence of status edits, per-measure AI proposals, RAG
\* autofills and batch autofills, every value stored in the status map is
\* one of Conforme, Partiellement conforme, Non conforme, Pas réponse, NA.
C16_StoredStatusInDomain ==
    \A mid \in DOMAIN anssi_status : InSTATUSES(anssi_status[mid])

\* a RAG autofill has run after an edit: the edited measure holds the status
\* the user picked, and the measure of the other theme, for which the
\* proposer returned "Non évalué" with the text of the answer, holds
\* "Pas réponse" with that text
C16_Witness ==
    /\ a_last = "applied"
    /\ HasRagIndex
    /\ DOMAIN anssi_status = MeasureIdsOf(SessionMeasures)
    /\ anssi_status["II-4"] = "NA"
    /\ anssi_status["VIII-34"] = "Pas réponse"
    /\ "VIII-34" \in DOMAIN anssi_justifs
    /\ anssi_justifs["VIII-34"] = T_statut

\* C17: after any sequence of edits and AI autofills, every key of the
\* status map and of the justification map is the id of a measure of the
\* reference dataset.
C17_KeysAreMeasureIds ==
    /\ DOMAIN anssi_status \subseteq MeasureIds
    /\ DOMAIN anssi_justifs \subseteq MeasureIds

\* C18: no operation of the session removes a key from the status map or
\* from the justification map, and a measure without an entry reads as
\* "Pas réponse" in the rows of the results.
C18_EntriesNeverDeleted ==
    /\ [][/\ DOMAIN anssi_status \subseteq DOMAIN anssi_status'
          /\ DOMAIN anssi_justifs \subseteq DOMAIN anssi_justifs']_vars
    /\ [](\A k \in 1..Len(flatten_measures) :
             flatten_measures[k].id \notin DOMAIN anssi_status =>
                RowOf(flatten_measures[k], anssi_status, anssi_justifs).Statut = "Pas réponse")

\* the user is back at home after the results, the document that was
\* indexed is removed, and the maps hold the entries of the two themes
\* while the other measures have none
C18_Witness ==
    /\ route = "home"
    /\ anssi_stage = "results"
    /\ anssi_index.present
    /\ Len(uploaded_docs) = 0
    /\ DOMAIN anssi_status = MeasureIdsOf(SessionMeasures)
    /\ DOMAIN anssi_justifs = MeasureIdsOf(SessionMeasures)
    /\ anssi_status["II-4"] = "Non conforme"
    /\ anssi_justifs["VIII-34"] = J_manual

\* C24: without a credential no operation of the session raises and the
\* index is left as it is: the operations that need the service are
\* declined before they call it.
C24_NoCredentialDetected ==
    [][~has_key => (anssi_index' = anssi_index /\ a_last' # "raised")]_vars

\* C25: the stored index changes only in a step of the index button, drawn
\* in the intro and in the questions of the ANSSI questionnaire, and then
\* to the result of _index_docs on the stored documents; every other step
\* (upload, removal, edit, autofill, proposal, change of stage or page)
\* leaves it unchanged.
C25_IndexOnlyByIndexAction ==
    [][anssi_index' # anssi_index =>
          /\ route = ANSSI
          /\ anssi_stage \in {"intro", "questions"}
          /\ Len(uploaded_docs) > 0
          /\ \E ok \in BOOLEAN :
                anssi_index' = index_docs(uploaded_docs, anssi_index, ok).index
          /\ UNCHANGED <<uploaded_docs, global_uploader, route, anssi_stage>>]_vars

\* an autofill was applied with an index of chunks whose document is no
\* longer stored
C25_Witness ==
    /\ anssi_index.present
    /\ Len(anssi_index.chunks) > 0
    /\ Len(uploaded_docs) = 0
    /\ global_uploader = {}
    /\ anssi_stage = "questions"
    /\ a_last = "applied"

\* the stage moves of the questionnaire (lines 648, 860, 881, 884, 938)
StageMoves ==
    { <<"intro", "questions">>, <<"questions", "review">>, <<"review", "questions">>,
      <<"review", "results">>, <<"results", "questions">> }

\* C26: the stage is one of intro, questions, review, results, it starts
\* at intro, and it changes only along intro -> questions, questions ->
\* review, review -> questions, review -> results, results -> questions.
C26_StageMachine ==
    /\ anssi_stage = "intro"
    /\ [](anssi_stage \in {"intro", "questions", "review", "results"})
    /\ [][anssi_stage' # anssi_stage => <<anssi_stage, anssi_stage'>> \in StageMoves]_vars

\* the results are shown, which the review alone leads to, with entries
\* the questions stage wrote
C26_Witness ==
    /\ route = ANSSI
    /\ anssi_stage = "results"
    /\ a_last = "shown"
    /\ "VIII-34" \in DOMAIN anssi_status

\* C27: when the proposal for a measure is reported as applied, the status
\* and the justification the branch wrote for that measure are the stored
\* ones after the pass that draws the questions again.
C27_ProposedValuesSurvive ==
    [][\A mid \in MeasureIdsOf(SessionMeasures), chat \in SessionChats :
          (ProposeStep(mid, chat) /\ a_last' = "applied") =>
              /\ anssi_status'[mid] = ProposeBranch(mid, chat).maps.status[mid]
              /\ anssi_justifs'[mid] = ProposeBranch(mid, chat).maps.justifs[mid]]_vars

\* the same in the builds that create a widget anew when its index or value
\* argument changes
C27_SurviveWhenNotKeyed ==
    [][\A mid \in MeasureIdsOf(SessionMeasures), chat \in SessionChats :
          (~widget_keyed /\ ProposeStep(mid, chat) /\ a_last' = "applied") =>
              /\ anssi_status'[mid] = ProposeBranch(mid, chat).maps.status[mid]
              /\ anssi_justifs'[mid] = ProposeBranch(mid, chat).maps.justifs[mid]]_vars

\* C30: in a RAG autofill, a measure whose proposal raises keeps its status
\* (Pas réponse when it had none) and its justification, and every other
\* measure gets the status and the justification of its proposal: the loop
\* goes through all the measures whichever proposals raise.
C30_RaisedProposalKeepsMeasure ==
    (Shown(route, anssi_stage) /\ has_key /\ HasRagIndex) =>
        \A chats \in [1..Len(SessionMeasures) -> SessionChats] :
            LET before == Maps(anssi_status, anssi_justifs)
                after == AutofillRag(before, 1, chats)
            IN \A k \in 1..Len(SessionMeasures) :
                  LET mid == SessionMeasures[k].id
                      res == propose_anssi_answer(anssi_index, SvcVec(<<1, 0>>), chats[k])
                  IN IF res.raised
                     THEN /\ after.status[mid] = MapGet(before.status, mid, "Pas réponse")
                          /\ (mid \in DOMAIN after.justifs) = (mid \in DOMAIN before.justifs)
                          /\ mid \in DOMAIN before.justifs =>
                                after.justifs[mid] = before.justifs[mid]
                     ELSE /\ after.status[mid] =
                                (IF InSTATUSES(res.status) THEN res.status ELSE "Pas réponse")
                          /\ mid \in DOMAIN after.justifs
                          /\ after.justifs[mid] =
                                WithCitations(ensure_plain_text(res.justification), res.citations)

\* an autofill over an index was applied in a build that draws the widgets
\* anew: II-4, whose proposal raised, keeps the NA and the text the user
\* gave it, and VIII-34 holds the status and the text of its proposal
C30_Witness ==
    /\ ~widget_keyed
    /\ has_key
    /\ HasRagIndex
    /\ Shown(route, anssi_stage)
    /\ a_last = "applied"
    /\ anssi_status["II-4"] = "NA"
    /\ anssi_justifs["II-4"] = J_manual
    /\ anssi_status["VIII-34"] = "Conforme"
    /\ Len(anssi_justifs["VIII-34"]) > Len(T_statut)

(***************************************************************************)
(* The gap analysis of the ISO 27001 questionnaire (src/core/analysis.py,  *)
(* analyse_responses), run twice over the same responses while the clock   *)
(* of the host goes on.                                                    *)
(***************************************************************************)
\* the clock counts days, day 1 being 2026-01-01
FirstDay == 274
MaxDay == 277

IsLeap(y) == (y % 4 = 0 /\ y % 100 # 0) \/ y % 400 = 0

DaysIn(y, m) ==
    CASE m = 2 -> IF IsLeap(y) THEN 29 ELSE 28
      [] m \in {4, 6, 9, 11} -> 30
      [] OTHER -> 31

\* the calendar date that is n - 1 days after the first of month m of year y
RECURSIVE DateFrom(_, _, _)
DateFrom(y, m, n) ==
    IF n <= DaysIn(y, m) THEN [y |-> y, m |-> m, d |-> n]
    ELSE IF m = 12 THEN DateFrom(y + 1, 1, n - DaysIn(y, m))
    ELSE DateFrom(y, m + 1, n - DaysIn(y, m))

DigitChars == <<"0","1","2","3","4","5","6","7","8","9">>

\* n written with w decimal digits, zero padded
RECURSIVE Digits(_, _)
Digits(n, w) ==
    IF w = 0 THEN <<>> ELSE Digits(n \div 10, w - 1) \o <<DigitChars[(n % 10) + 1]>>

\* strftime("%Y-%m-%d")
strftime(date) ==
    Digits(date.y, 4) \o <<"-">> \o Digits(date.m, 2) \o <<"-">> \o Digits(date.d, 2)

\* (datetime.now() + timedelta(days=90)).strftime("%Y-%m-%d") on day now
DefaultDueDate(now) == strftime(DateFrom(2026, 1, now + 90))

\* two questions of ISO_QUESTIONS stand for the questionnaire
GapQuestions ==
    << [domain |-> "A.5 Politiques", question |-> "Une politique existe-t-elle ?"],
       [domain |-> "A.8 Actifs", question |-> "Un inventaire existe-t-il ?"] >>

NomClient == "ACME"

\* an answer: a plain text (the mode without AI), or a dict whose absent
\* fields read as "" (answer_data.get(key, ""))
D_given == <<"2","0","2","6","-","1","2","-","3","1">>
TextAnswer(t) ==
    [dict |-> FALSE, Reponse |-> t, Statut |-> "", Recommandation |-> "",
     Priorite |-> "", Echeance |-> <<>>]
DictAnswer(r, st, reco, prio, due) ==
    [dict |-> TRUE, Reponse |-> r, Statut |-> st, Recommandation |-> reco,
     Priorite |-> prio, Echeance |-> due]

AnswerPool ==
    { TextAnswer(""),
      TextAnswer("oui"),
      DictAnswer("oui", "Conforme", "Revoir la politique", "Haute", D_given),
      DictAnswer("non", "Non conforme", "", "", <<>>),
      DictAnswer("non", "Non conforme", "Revoir la politique", "Haute", <<>>) }

\* a recommendation: the given text, or the default sentence about a domain
GivenReco(t) == [fallback |-> FALSE, text |-> t]
DefaultReco(domain) == [fallback |-> TRUE, text |-> domain]

\* analyse_responses(responses, nom_client) run on day now: one row per
\* question, the empty fields replaced by their defaults (lines 36-41)
analyse_responses(responses, now) ==
    [k \in 1..Len(responses) |->
        LET a == responses[k]
        IN [client |-> NomClient,
            domain |-> GapQuestions[k].domain,
            question |-> GapQuestions[k].question,
            Reponse |-> a.Reponse,
            Statut |-> IF a.dict THEN a.Statut ELSE "",
            Recommandation |-> IF a.dict /\ a.Recommandation # ""
                               THEN GivenReco(a.Recommandation)
                               ELSE DefaultReco(GapQuestions[k].domain),
            Priorite |-> IF a.dict /\ a.Priorite # "" THEN a.Priorite ELSE "Moyenne",
            Echeance |-> IF a.dict /\ a.Echeance # <<>> THEN a.Echeance
                         ELSE DefaultDueDate(now)]]

InitGap ==
    /\ e_responses \in [1..Len(GapQuestions) -> AnswerPool]
    /\ e_today \in FirstDay..MaxDay
    /\ e_first = <<>>
    /\ e_second = <<>>
    /\ e_pc = "start"
    /\ ParseIdle
    /\ RetrieveIdle
    /\ ChunkIdle
    /\ SessionIdle
    /\ ProposeIdle
    /\ ScoreIdle
    /\ AssessIdle
    /\ PlanIdle
    /\ ExportIdle

GapFrame == UNCHANGED <<pvars, rvars, cvars, svars, bvars, qvars, gvars, avars, kvars, fvars>>

\* the form is submitted (src/app.py:1286-1288)
GapFirst ==
    /\ e_pc = "start"
    /\ e_first' = analyse_responses(e_responses, e_today)
    /\ e_pc' = "once"
    /\ UNCHANGED <<e_responses, e_today, e_second>>
    /\ GapFrame

\* the form is submitted again with the same answers
GapSecond ==
    /\ e_pc = "once"
    /\ e_second' = analyse_responses(e_responses, e_today)
    /\ e_pc' = "twice"
    /\ UNCHANGED <<e_responses, e_today, e_first>>
    /\ GapFrame

\* midnight passes on the host
GapMidnight ==
    /\ e_pc # "twice"
    /\ e_today < MaxDay
    /\ e_today' = e_today + 1
    /\ UNCHANGED <<e_responses, e_first, e_second, e_pc>>
    /\ GapFrame

NextGap == GapFirst \/ GapSecond \/ GapMidnight

SpecGap == InitGap /\ [][NextGap]_vars

\* C22: two runs of the gap analysis over unchanged responses give the
\* same rows.
C22_SameRowsTwice ==
    e_pc = "twice" => e_first = e_second

\* the rows of a run depend on the responses alone when every answer
\* carries its deadline
C22_SameRowsWhenDated ==
    (e_pc = "twice" /\ \A k \in 1..Len(e_responses) :
                          e_responses[k].dict /\ e_responses[k].Echeance # <<>>)
        => e_first = e_second

(***************************************************************************)
(* The result files of the results stage (src/app.py:913-936), written and *)
(* read back by two sessions of one server.  The paths are fixed names in  *)
(* OUTPUT_DIR, the same for every session.                                 *)
(***************************************************************************)
Sessions == {1, 2}

\* anssi_resultats.csv, anssi_resultats.xlsx, anssi_rapport.docx, in the
\* order they are written and read; the action plan file, written only
\* when the plan has rows, is left out
ExportFiles == <<"anssi_resultats.csv", "anssi_resultats.xlsx", "anssi_rapport.docx">>

\* the status maps of the sessions
ExportStatusMaps ==
    { EmptyMap,
      [k \in {"II-4"} |-> "Conforme"],
      [k \in {"II-4", "VIII-34"} |-> IF k = "II-4" THEN "Non conforme" ELSE "NA"] }

\* what _save_csv_pretty, _save_excel_styled and _save_anssi_report_docx
\* put in their file for a status map: the rows, the rows and the theme
\* table, the rows with the theme table and the global maturity
FileContent(file, status_map) ==
    LET df == _anssi_build_dataframe(flatten_measures, status_map, EmptyMap)
    IN [written |-> TRUE, file |-> file, rows |-> df,
        themes |-> IF file = ExportFiles[1] THEN <<>> ELSE _anssi_theme_maturity(df),
        overall |-> IF file = ExportFiles[3] THEN overall(df) ELSE 0]

InitExport ==
    /\ f_data \in [Sessions -> ExportStatusMaps]
    /\ f_file = [i \in 1..Len(ExportFiles) |-> NoExport]
    /\ f_pc = [s \in Sessions |-> 0]
    /\ f_offered = [s \in Sessions |-> <<>>]
    /\ ParseIdle
    /\ RetrieveIdle
    /\ ChunkIdle
    /\ SessionIdle
    /\ ProposeIdle
    /\ ScoreIdle
    /\ AssessIdle
    /\ PlanIdle
    /\ GapIdle

ExportFrame == UNCHANGED <<pvars, rvars, cvars, svars, bvars, qvars, gvars, avars, kvars, evars>>

\* a session writes its next file (lines 920-929)
ExportWrite(s) ==
    /\ f_pc[s] < Len(ExportFiles)
    /\ f_file' = [f_file EXCEPT ![f_pc[s] + 1] = FileContent(ExportFiles[f_pc[s] + 1], f_data[s])]
    /\ f_pc' = [f_pc EXCEPT ![s] = f_pc[s] + 1]
    /\ UNCHANGED <<f_data, f_offered>>
    /\ ExportFrame

\* a session reads the next file back for its download button
\* (lines 932-936: data=open(path, "rb").read())
ExportRead(s) ==
    /\ f_pc[s] >= Len(ExportFiles)
    /\ f_pc[s] < 2 * Len(ExportFiles)
    /\ f_offered' = [f_offered EXCEPT ![s] = Append(f_offered[s], f_file[f_pc[s] - Len(ExportFiles) + 1])]
    /\ f_pc' = [f_pc EXCEPT ![s] = f_pc[s] + 1]
    /\ UNCHANGED <<f_data, f_file>>
    /\ ExportFrame

\* the page of a session is run again and draws the results stage anew
ExportAgain(s) ==
    /\ f_pc[s] = 2 * Len(ExportFiles)
    /\ f_pc' = [f_pc EXCEPT ![s] = 0]
    /\ f_offered' = [f_offered EXCEPT ![s] = <<>>]
    /\ UNCHANGED <<f_data, f_file>>
    /\ ExportFrame

NextExport ==
    \E s \in Sessions : ExportWrite(s) \/ ExportRead(s) \/ ExportAgain(s)

SpecExport == InitExport /\ [][NextExport]_vars

\* C23: every file a session is offered for download is derived from the
\* assessment data of that session.
C23_OfferedFromOwnData ==
    \A s \in Sessions :
        \A i \in 1..Len(f_offered[s]) :
            f_offered[s][i] = FileContent(ExportFiles[i], f_data[s])

(***************************************************************************)
(* The action plan of the results stage (src/app.py,                       *)
(* _build_anssi_action_plan_df).                                           *)
(***************************************************************************)
MaxItems == 2

\* the status maps of the plan: the two first measures, each with any status
PlanStatusMaps == { EmptyMap } \cup [{"II-4", "II-5"} -> StatusSet]

\* an element of the JSON list: an object read with it.get, or a value
\* that has no get (a string, a number)
PlanItem(id, actions, priorite) ==
    [obj |-> TRUE, id |-> id, actions |-> actions, priorite |-> priorite]
NotAPlanItem == [obj |-> FALSE, id |-> Absent, actions |-> <<>>, priorite |-> Absent]

A_policy == <<"p","o","l","i","c","y">>
A_review == <<"r","e","v","i","e","w">>
A_audit == <<"a","u","d","i","t">>

PlanItemPool ==
    { PlanItem(Str("II-4"), <<A_policy>>, Str("Low")),
      PlanItem(Str("II-5"), <<J_fenced, A_review, A_audit>>, Absent),
      PlanItem(Str("Z-99"), <<A_audit>>, Str("High")),
      NotAPlanItem }

\* the answers of the chat call: it raises, its text is not JSON, its text
\* is a JSON number, or its text is a JSON list of up to n elements
PlanAnswers(n) ==
    { PlanFail,
      [ok |-> TRUE, kind |-> "invalid", items |-> <<>>],
      [ok |-> TRUE, kind |-> "number", items |-> <<>>] }
    \cup { [ok |-> TRUE, kind |-> "list", items |-> items] :
              items \in UNION { [1..m -> PlanItemPool] : m \in 0..n } }

\* the action of a plan row: a text of the service, or the default text of
\* a status (default_actions, lines 549-552)
AiAction(text) == [default |-> FALSE, statut |-> "", text |-> text]
DefaultAction(stt) == [default |-> TRUE, statut |-> stt, text |-> <<>>]

\* line 499: the rows that are Non conforme or Partiellement conforme
Target(df) ==
    LET IsTarget(r) == r.Statut \in {"Non conforme", "Partiellement conforme"}
    IN SelectSeq(df, IsTarget)

\* lines 553-559: one row per target row
GenericPlan(target) ==
    [i \in 1..Len(target) |->
        [ID |-> target[i].ID, Theme |-> target[i].Theme,
         Action |-> DefaultAction(target[i].Statut),
         Priorite |-> IF target[i].Statut = "Non conforme" THEN "High" ELSE "Medium",
         Justification |-> target[i].Justification]]

\* lines 529-544 from element k on: the rows appended to actions, and
\* whether an element raised
RECURSIVE AiRows(_, _, _)
AiRows(target, items, k) ==
    IF k > Len(items) THEN [raised |-> FALSE, rows |-> <<>>]
    ELSE IF ~items[k].obj THEN [raised |-> TRUE, rows |-> <<>>]
    ELSE LET it == items[k]
             prio == IF it.priorite.t = "absent" THEN "High" ELSE it.priorite.s
             IsBase(r) == it.id.t = "str" /\ r.ID = it.id.s
             base == SelectSeq(target, IsBase)
             n == IF Len(it.actions) < 2 THEN Len(it.actions) ELSE 2
             here == IF Len(base) = 0 THEN <<>>
                     ELSE [a \in 1..n |->
                              [ID |-> it.id.s, Theme |-> base[1].Theme,
                               Action |-> AiAction(ensure_plain_text(it.actions[a])),
                               Priorite |-> prio,
                               Justification |-> ensure_plain_text(base[1].Justification)]]
             rest == AiRows(target, items, k + 1)
         IN [raised |-> rest.raised, rows |-> here \o rest.rows]

\* lines 521-546: the call, json.loads and the loop over the elements
AiPath(target, answer) ==
    IF ~answer.ok \/ answer.kind # "list" THEN [raised |-> TRUE, rows |-> <<>>]
    ELSE AiRows(target, answer.items, 1)

\* _build_anssi_action_plan_df(df) with or without a client: the fallback
\* appends to the list the loop has filled so far
_build_anssi_action_plan_df(df, client, answer) ==
    LET target == Target(df)
    IN IF Len(target) = 0 THEN <<>>
       ELSE IF ~client THEN GenericPlan(target)
       ELSE LET ai == AiPath(target, answer)
            IN IF ai.raised THEN ai.rows \o GenericPlan(target) ELSE ai.rows

PlanDf == _anssi_build_dataframe(flatten_measures, k_status, EmptyMap)

InitPlan ==
    /\ k_status \in PlanStatusMaps
    /\ k_client \in BOOLEAN
    /\ k_answer \in PlanAnswers(MaxItems)
    /\ k_out = <<>>
    /\ k_pc = "start"
    /\ ParseIdle
    /\ RetrieveIdle
    /\ ChunkIdle
    /\ SessionIdle
    /\ ProposeIdle
    /\ ScoreIdle
    /\ AssessIdle
    /\ GapIdle
    /\ ExportIdle

\* the plan of the results stage (line 924)
BuildPlan ==
    /\ k_pc = "start"
    /\ k_out' = _build_anssi_action_plan_df(PlanDf, k_client, k_answer)
    /\ k_pc' = "done"
    /\ UNCHANGED <<k_status, k_client, k_answer>>
    /\ UNCHANGED <<pvars, rvars, cvars, svars, bvars, qvars, gvars, avars, evars, fvars>>

NextPlan == BuildPlan

SpecPlan == InitPlan /\ [][NextPlan]_vars

\* the AI path was taken and failed
PlanAiFailed == k_client /\ Len(Target(PlanDf)) > 0 /\ AiPath(Target(PlanDf), k_answer).raised

\* C28: every row of the plan is for a row that is Non conforme or
\* Partiellement conforme, and when the AI path fails the plan is the
\* generic one: one action per such row, High for Non conforme and Medium
\* for Partiellement conforme, and nothing else.
C28_FallbackIsGeneric ==
    k_pc = "done" =>
        /\ \A i \in 1..Len(k_out) :
              \E j \in 1..Len(Target(PlanDf)) : k_out[i].ID = Target(PlanDf)[j].ID
        /\ (~k_client \/ PlanAiFailed) => k_out = GenericPlan(Target(PlanDf))

\* the plan is the generic one when the call raises, when the text is not
\* a JSON list, and when the first element of the list has no get
C28_GenericWhenNothingAppended ==
    (k_pc = "done" /\ PlanAiFailed /\ AiPath(Target(PlanDf), k_answer).rows = <<>>)
        => k_out = GenericPlan(Target(PlanDf))

====
